---- MODULE Spec2Model ----
(***************************************************************************)
(* EchoMine: real-time voice-chat backend.                                 *)
(*                                                                         *)
(* One module, several specifications, one per component:                  *)
(*   SpecSeg      stt_server.ws_stt, the VAD segmentation loop of one      *)
(*                streaming connection; SpecSegReply adds the reply task   *)
(*                and the worker's replies; SpecSegWrongSize is the loop   *)
(*                fed frames of the wrong size only                        *)
(*   SpecFabric   rabbitmq_config topology, rag_worker / memory_worker     *)
(*                consumers, per-connection reply queues; FairSpecRetry    *)
(*                is the retry loop under fair consumers and TTL expiry;   *)
(*                SpecBadBody adds bodies the consumers cannot read        *)
(*   SpecProxy    gateway.proxy.STTProxy (FairSpecProxy adds fairness);    *)
(*                SpecClose adds calls of close() from outside run()       *)
(*   SpecSession  gateway.session_manager.SessionManager, calls run one    *)
(*                after another (SpecSessionUse without create and         *)
(*                delete); SpecSessionConc interleaves them at their       *)
(*                awaits; SpecHistory is one session's history;            *)
(*                SpecSessionRejoin is one user connecting again and       *)
(*                again while time passes                                  *)
(*   SpecAuth     gateway.auth.AuthManager tokens                          *)
(*   SpecRegister gateway.auth.AuthManager.register_user, calls            *)
(*                interleaved at their awaits                              *)
(*   SpecGateway  gateway.main.websocket_stt, one connection from the      *)
(*                token check to the proxy's return; SpecIntercept is an   *)
(*                authenticated connection whose events go to the session  *)
(*                history                                                  *)
(*   SpecSessionApi  gateway.main.get_session, requests for sessions with  *)
(*                the tokens clients can present                           *)
(*   SpecDeactivated  the endpoints that need a user, asked with the       *)
(*                token of a user whose record was deactivated             *)
(* Every specification starts from InitAll and leaves the variables of     *)
(* the other components unchanged.                                         *)
(***************************************************************************)
EXTENDS Integers, Sequences, FiniteSets, TLC

VARIABLES
    \* ---- stt_server.ws_stt (one connection) ----
    pc,                    \* position of the handler: accept, declare, start, recv,
                           \* transcribing, closed
    forward_transcription, \* the query parameter of the connection
    in_speech,             \* in_speech
    speech_buf,            \* len(speech_buf), bytes
    since_voice,           \* (now - last_voice_ts) in ms, saturated at the cutoff
    seq,                   \* seq
    pcm,                   \* len(pcm) handed to the executor while transcribing
    ws_sent,               \* messages sent to the client, in order
    client_open,           \* the client's transport is still open
    transcribed,           \* lengths (bytes) handed to transcribe_blocking so far
    published,             \* utterance jobs published to the rag exchange, in order
    transcript,            \* text: what the last transcription returned
    run_open,              \* history: a run of speech activity is open
    runs,                  \* history: runs of speech activity begun so far
    last_end,              \* history: buffer length at the last speech_end and its place in ws_sent
    quiet_frames,          \* history: non-speech frames in a row received in speech
    utter_bytes,           \* history: bytes of the speech frames since the last speech_start
    reply_queue,           \* rag.replies.<connection_id>: none, declared, deleted
    reply_task,            \* consume_replies task: none, created, consuming, cancelled
    first_frame,           \* history: reply_queue and reply_task when the first frame was received
    reply_msgs,            \* the messages waiting in rag.replies.<connection_id>
                           \* (the content of the queue for as long as it is declared)
    answered,              \* which of the published jobs (by place) the worker has answered
    foreign,               \* how many messages that are no replies have reached the queue
    \* ---- the broker, the workers, the reply queues ----
    queues,                \* durable queue name -> messages, head first
    reply_q,               \* connection id -> messages of rag.replies.<id>
    conn_state,            \* connection id -> new, open (reply queue declared), closed
    conn_seq,              \* connection id -> seq of that ws_stt handler
    client_rx,             \* connection id -> answers sent to that client
    next_mid,              \* history: number of the next published message
    jobs_published,        \* history: bodies of the utterance jobs published
    handler_runs,          \* history: message -> times its handler body ran
    deliveries,            \* history: message -> times it was delivered
    discarded,             \* history: messages acknowledged as over the retry maximum
    rag_last,              \* history: the last run of rag_worker's handler body
    reply_errors,          \* history: replies consume_replies logged and passed over
    \* ---- gateway.proxy.STTProxy (one connection) ----
    run_pc,                \* position of run(): connect, gather, done
    c2s_pc,                \* forward_client_to_stt: idle, recv, done
    s2c_pc,                \* forward_stt_to_client: idle, recv, done
    p_closed,              \* self._closed
    client_ws,             \* client transport as the gateway sees it: open, disconnected
    client_inbox,          \* messages of the client not yet received by the gateway
    stt_ws,                \* upstream connection: none, open, closed_by_stt, closed_by_proxy
    stt_inbox,             \* messages of the speech endpoint not yet iterated
    to_stt,                \* what the gateway sent upstream, in order
    to_client,             \* what the gateway sent to the client, in order
    client_sent,           \* history: frames the client has sent
    stt_sent,              \* history: messages the speech endpoint has sent
    closers,               \* caller of close() -> reason while it awaits stt_ws.close(), else ""
    close_calls,           \* history: reasons of the calls of close(), in call order
    stt_closes,            \* history: calls of stt_ws.close()
    connection_ends,       \* history: reasons of the connection_end records, in order
    client_close,          \* close frame the gateway sent to the client: code, reason
    \* ---- gateway.main.websocket_stt (one connection) ----
    gw_pc,                 \* position of the handler: new, accepted, session, run, returned
    gw_token,              \* the token query parameter
    gw_user,               \* user["user_id"] after validation
    gw_session_id,         \* session_id handed to the proxy
    \* ---- gateway.main.get_session ----
    gs_result,             \* the last request to /session/{session_id} and its response
    \* ---- gateway.auth.AuthManager: users in Redis ----
    user_keys,             \* user id -> the key user:<id>
    username_keys,         \* username -> the key username:<name>
    rp,                    \* caller of register_user -> position and locals
    next_uid,              \* history: number of the next user id
    registered,            \* history: (username, user_id) of the calls that returned a user_id
    \* ---- gateway.session_manager.SessionManager over Redis ----
    sess_clock,            \* seconds
    session_keys,          \* session id -> the key session:<id>: exists, expires, data
    user_session_keys,     \* user id -> the key user_session:<user>: exists, expires, sid
    sp,                    \* caller -> position in its call and the call's locals
    next_sid,              \* history: number of the next session id
    msg_no,                \* history: number of the last message handed to add_to_history
    acked,                 \* history: (session, message) whose add_to_history returned True
    last_goc,              \* history: user -> session id of the last get_or_create_session
    goc_result,            \* history: the last get_or_create_session that returned
    \* ---- gateway.auth.AuthManager: access tokens ----
    auth_clock,            \* seconds (datetime.utcnow())
    ticks,                 \* history: how often time has advanced
    tokens,                \* history: the tokens create_access_token has returned
    decode_result,         \* history: the last decode_token call and what it returned
    accepted               \* history: jti of the tokens decode_token has accepted

segGhost == <<run_open, runs, last_end, quiet_frames, utter_bytes>>
segReply == <<reply_queue, reply_task>>
segVars == <<pc, forward_transcription, in_speech, speech_buf, since_voice, seq,
             pcm, ws_sent, client_open, transcribed, published, transcript,
             segGhost, segReply, first_frame>>

fwdVars == <<reply_msgs, answered, foreign>>

fabVars == <<queues, reply_q, conn_state, conn_seq, client_rx, next_mid,
             jobs_published, handler_runs, deliveries, discarded, rag_last,
             reply_errors>>

closeVars == <<closers, close_calls, stt_closes, connection_ends>>
proxyVars == <<run_pc, c2s_pc, s2c_pc, p_closed, client_ws, client_inbox, stt_ws,
               stt_inbox, to_stt, to_client, client_sent, stt_sent, closeVars,
               client_close>>

gwVars == <<gw_pc, gw_token, gw_user, gw_session_id>>

apiVars == <<gs_result>>

regVars == <<user_keys, username_keys, rp, next_uid, registered>>

sessVars == <<sess_clock, session_keys, user_session_keys, sp, next_sid, msg_no,
              acked, last_goc, goc_result>>

authVars == <<auth_clock, ticks, tokens, decode_result, accepted>>

vars == <<segVars, fwdVars, fabVars, proxyVars, sessVars, authVars, gwVars, regVars,
          apiVars>>
notSeg == <<fwdVars, fabVars, proxyVars, sessVars, authVars, gwVars, regVars, apiVars>>
notFab == <<segVars, fwdVars, proxyVars, sessVars, authVars, gwVars, regVars, apiVars>>
notProxy == <<segVars, fwdVars, fabVars, sessVars, authVars, gwVars, regVars, apiVars>>
notSess == <<segVars, fwdVars, fabVars, proxyVars, authVars, gwVars, regVars, apiVars>>
notAuth == <<segVars, fwdVars, fabVars, proxyVars, sessVars, gwVars, regVars, apiVars>>
notGw == <<segVars, fwdVars, fabVars, proxyVars, sessVars, authVars, regVars, apiVars>>
notReg == <<segVars, fwdVars, fabVars, proxyVars, sessVars, authVars, gwVars, apiVars>>
\* What the proxy leaves alone when it calls the session manager.
notProxySess == <<segVars, fwdVars, fabVars, authVars, gwVars, regVars, apiVars>>

Min(a, b) == IF a < b THEN a ELSE b

(***************************************************************************)
(* stt_server.py                                                           *)
(***************************************************************************)
SAMPLE_RATE == 16000
SAMPLE_WIDTH == 2
FRAME_MS == 20
FRAME_BYTES == (SAMPLE_RATE * FRAME_MS * SAMPLE_WIDTH) \div 1000
SILENCE_CUTOFF_MS == 700
MIN_UTTERANCE_MS == 250

\* Bounds of the segmentation model.
MaxBufFrames == 14
MaxSeq == 2
MaxSent == 8
\* Non-speech frames of one pause that arrive faster than one per FRAME_MS.
MaxBurst == 1
\* Messages on a reply queue that are no replies.
MaxForeign == 1

\* Byte lengths of inbound frames: empty, short, exact, long.
FrameLens == {0, 320, 640, 1000}
\* Milliseconds between two returns of ws.receive_bytes().
Gaps == {0, 20, 700}
\* What transcribe_blocking returns (it strips its result).
Texts == {"", "hi"}
CONN_ID == "c1"

Ev(type, text, n, tag) == [type |-> type, text |-> text, seq |-> n, tag |-> tag]
EvReady ==
    [type |-> "ready", text |-> "", seq |-> 0, tag |-> "",
     sample_rate |-> SAMPLE_RATE, frame_ms |-> FRAME_MS, frame_bytes |-> FRAME_BYTES,
     silence_cutoff_ms |-> SILENCE_CUTOFF_MS, connection_id |-> CONN_ID]
\* Mutant of EvSpeechStart: the ready message sent again at a speech start.
EvReadyAgain == EvReady
EvSpeechStart == Ev("speech_start", "", 0, "")
EvSpeechEnd == Ev("speech_end", "", 0, "")
EvTooShort == Ev("final", "", 0, "too_short")
EvFinal(text, n) == Ev("final", text, n, "")
EvError(stage) == Ev("error", "", 0, stage)
\* Mutant of EvAnswer: the answer numbered one too high.
EvAnswerNext(n) == Ev("answer", "", n + 1, "")
EvAnswer(n) == Ev("answer", "", n, "")

\* Mutant of NormalizeFrame: the frame taken as it came.
NormalizeFrameNot(len) == len

\* frame + b"\x00" * (FRAME_BYTES - len(frame)), or frame[:FRAME_BYTES]
NormalizeFrame(len) ==
    IF len < FRAME_BYTES THEN len + (FRAME_BYTES - len)
    ELSE IF len > FRAME_BYTES THEN FRAME_BYTES
    ELSE len

\* silence_ms >= SILENCE_CUTOFF_MS
SilenceReached(silence_ms) == silence_ms >= SILENCE_CUTOFF_MS

\* Mutant of TooShort: the byte length compared with the millisecond limit.
TooShortBytes(buf) == buf < MIN_UTTERANCE_MS

\* utter_ms = len(speech_buf) / (SAMPLE_RATE * SAMPLE_WIDTH) * 1000.0;
\* utter_ms < MIN_UTTERANCE_MS, without the division
TooShort(buf) == buf * 1000 < MIN_UTTERANCE_MS * SAMPLE_RATE * SAMPLE_WIDTH

\* Mutant of Strip: every transcript taken to hold words.
StripToWords(text) == "hi"

\* text.strip(): the model's texts hold no inner whitespace
Strip(text) == IF text = " " THEN "" ELSE text

\* Mutant of Cleared: the buffer left as it is.
ClearedNot(buf) == buf

\* speech_buf.clear()
Cleared(buf) == 0

\* Mutant of SpeechStartDue: speech_start sent for every speech frame.
SpeechStartDueAlways(flag) == TRUE

\* `if not in_speech:` before speech_start is sent
SpeechStartDue(flag) == ~flag

SegInit ==
    /\ pc = "accept"
    /\ forward_transcription \in BOOLEAN
    /\ in_speech = FALSE
    /\ speech_buf = 0
    /\ since_voice = 0
    /\ seq = 0
    /\ pcm = 0
    /\ ws_sent = <<>>
    /\ client_open = TRUE
    /\ transcribed = {}
    /\ published = <<>>
    /\ transcript = ""
    /\ run_open = FALSE
    /\ runs = 0
    /\ last_end = [bytes |-> 0, at |-> 0]
    /\ quiet_frames = 0
    /\ utter_bytes = 0
    /\ reply_queue = "none"
    /\ reply_task = "none"
    /\ first_frame = [seen |-> FALSE, queue |-> "none", task |-> "none"]
    /\ reply_msgs = <<>>
    /\ answered = {}
    /\ foreign = 0

\* Mutant of Teardown: the handler ends and leaves the reply task running.
TeardownLeavesTask ==
    /\ pc' = "closed"
    /\ UNCHANGED segReply

\* The finally block: ws_closed = True, the reply task cancelled, the channel
\* closed (the exclusive auto-delete queue goes with it).
Teardown ==
    /\ pc' = "closed"
    /\ reply_task' = "cancelled"
    /\ reply_queue' = "deleted"

\* The ready message followed at once by the receive loop.
AfterReadyLoop == "recv"

\* What the handler does first after the ready message: the reply queue.
AfterReady == "declare"

\* ws.accept() and the ready message.  A send to a client that has gone
\* raises before the try block: the handler ends without its finally.
Accept ==
    /\ pc = "accept"
    /\ IF client_open
         THEN /\ ws_sent' = Append(ws_sent, EvReady)
              /\ pc' = AfterReady
         ELSE /\ ws_sent' = ws_sent
              /\ pc' = "closed"
    /\ UNCHANGED <<forward_transcription, in_speech, speech_buf, since_voice, seq,
                   pcm, client_open, transcribed, published, transcript, segGhost, segReply,
                   first_frame>>
    /\ UNCHANGED notSeg

\* reply_channel.declare_queue(f"rag.replies.{connection_id}", exclusive, auto_delete)
DeclareReplyQueue ==
    /\ pc = "declare"
    /\ reply_queue' = "declared"
    /\ pc' = "start"
    /\ UNCHANGED <<forward_transcription, in_speech, speech_buf, since_voice, seq,
                   pcm, ws_sent, client_open, transcribed, published, transcript, segGhost,
                   reply_task, first_frame>>
    /\ UNCHANGED notSeg

\* reply_task = asyncio.create_task(consume_replies()); the loop is entered
StartReplyTask ==
    /\ pc = "start"
    /\ reply_task' = "created"
    /\ pc' = "recv"
    /\ UNCHANGED <<forward_transcription, in_speech, speech_buf, since_voice, seq,
                   pcm, ws_sent, client_open, transcribed, published, transcript, segGhost,
                   reply_queue, first_frame>>
    /\ UNCHANGED notSeg

\* consume_replies gets to run and opens reply_queue.iterator(): from the
\* first moment the handler is suspended after create_task.
ReplyTaskRuns ==
    /\ reply_task = "created"
    /\ reply_queue = "declared"
    /\ reply_task' = "consuming"
    /\ UNCHANGED <<pc, forward_transcription, in_speech, speech_buf, since_voice, seq,
                   pcm, ws_sent, client_open, transcribed, published, transcript, segGhost,
                   reply_queue, first_frame>>
    /\ UNCHANGED notSeg

\* The first frame ws.receive_bytes() returns is noted with the state of the
\* reply queue and of its consumer task.
NoteFrame ==
    first_frame' = IF first_frame.seen THEN first_frame
                   ELSE [seen |-> TRUE, queue |-> reply_queue, task |-> reply_task]

\* One pass of the loop for a frame the VAD classifies as speech.  The two
\* sends of one pass are taken with the receive: the client's closing is seen
\* at the next receive or at the send after a transcription.
RecvVoice(len) ==
    /\ pc = "recv"
    /\ client_open
    /\ len > 0
    /\ Len(ws_sent) + 3 <= MaxSent
    /\ in_speech \/ seq < MaxSeq
    /\ speech_buf + FRAME_BYTES <= MaxBufFrames * FRAME_BYTES
    /\ since_voice' = 0
    /\ in_speech' = TRUE
    /\ ws_sent' = IF SpeechStartDue(in_speech)
                    THEN Append(ws_sent, EvSpeechStart) ELSE ws_sent
    /\ speech_buf' = (IF in_speech THEN speech_buf ELSE Cleared(speech_buf))
                       + NormalizeFrame(len)
    /\ run_open' = TRUE
    /\ runs' = IF run_open THEN runs ELSE runs + 1
    /\ quiet_frames' = 0
    /\ utter_bytes' = (IF ws_sent' = ws_sent THEN utter_bytes ELSE 0) + FRAME_BYTES
    /\ NoteFrame
    /\ UNCHANGED <<pc, forward_transcription, seq, pcm, client_open, transcribed,
                   published, transcript, last_end, segReply>>
    /\ UNCHANGED notSeg

\* One pass of the loop for a frame the VAD classifies as non-speech.
RecvSilence(len, gap) ==
    LET silence_ms == Min(since_voice + gap, SILENCE_CUTOFF_MS)
        quiet == IF in_speech THEN quiet_frames + 1 ELSE 0
    IN
    /\ pc = "recv"
    /\ client_open
    /\ in_speech => quiet * FRAME_MS - (since_voice + gap) <= MaxBurst * FRAME_MS
    /\ Len(ws_sent) + 3 <= MaxSent
    /\ since_voice' = silence_ms
    /\ run_open' = (run_open /\ silence_ms < SILENCE_CUTOFF_MS)
    /\ runs' = runs
    /\ IF in_speech /\ SilenceReached(silence_ms)
         THEN /\ in_speech' = FALSE
              /\ speech_buf' = Cleared(speech_buf)
              /\ last_end' = [bytes |-> speech_buf, at |-> Len(ws_sent) + 1]
              /\ quiet_frames' = 0
              /\ utter_bytes' = 0
              /\ IF TooShort(speech_buf)
                   THEN /\ ws_sent' = ws_sent \o <<EvSpeechEnd, EvTooShort>>
                        /\ UNCHANGED <<pc, pcm, transcribed>>
                   ELSE /\ ws_sent' = Append(ws_sent, EvSpeechEnd)
                        /\ pcm' = speech_buf
                        /\ transcribed' = transcribed \cup {speech_buf}
                        /\ pc' = "transcribing"
         ELSE /\ quiet_frames' = quiet
              /\ UNCHANGED utter_bytes
              /\ UNCHANGED <<in_speech, speech_buf, ws_sent, pc, pcm, transcribed,
                             last_end>>
    /\ NoteFrame
    /\ UNCHANGED <<forward_transcription, seq, client_open, published, transcript, segReply>>
    /\ UNCHANGED notSeg

\* The counter left as it is.
NextSeqSame(n) == n

\* seq += 1
NextSeq(n) == n + 1

\* run_in_executor(transcribe_blocking) returned text within the timeout:
\* seq += 1, the final message, the publish to the rag exchange.  A send to a
\* closed client raises, the handler's own error send raises again, and the
\* outer handlers end in the finally block.
TranscribeDone(text, pub_ok) ==
    LET n == NextSeq(seq)
        job == [text |-> text, connection_id |-> CONN_ID, seq |-> n]
        sent1 == IF forward_transcription
                   THEN Append(ws_sent, EvFinal(text, n)) ELSE ws_sent
    IN
    /\ pc = "transcribing"
    /\ seq' = n
    /\ transcript' = text
    /\ pcm' = 0
    /\ IF forward_transcription /\ ~client_open
         THEN /\ Teardown
              /\ UNCHANGED <<ws_sent, published>>
         ELSE IF Strip(text) = ""
         THEN /\ ws_sent' = sent1
              /\ pc' = "recv"
              /\ UNCHANGED <<published, segReply>>
         ELSE IF pub_ok
         THEN /\ ws_sent' = sent1
              /\ published' = Append(published, job)
              /\ pc' = "recv"
              /\ UNCHANGED segReply
         ELSE \* publish raised: `except Exception` sends the transcribe error
              /\ UNCHANGED published
              /\ IF client_open
                   THEN /\ ws_sent' = Append(sent1, EvError("transcribe"))
                        /\ pc' = "recv"
                        /\ UNCHANGED segReply
                   ELSE /\ ws_sent' = sent1
                        /\ Teardown
    /\ UNCHANGED <<forward_transcription, in_speech, speech_buf, since_voice,
                   client_open, transcribed, segGhost, first_frame>>
    /\ UNCHANGED notSeg

\* A transcription error left to the last-resort handler: reported with
\* stage "server", and the finally block runs.
TranscribeFailsUncaught ==
    /\ pc = "transcribing"
    /\ pcm' = 0
    /\ ws_sent' = IF client_open THEN Append(ws_sent, EvError("server")) ELSE ws_sent
    /\ Teardown
    /\ UNCHANGED <<forward_transcription, in_speech, speech_buf, since_voice, seq,
                   client_open, transcribed, published, transcript, segGhost, first_frame>>
    /\ UNCHANGED notSeg

\* asyncio.TimeoutError after 30 s, or an exception of the transcription.
TranscribeFails ==
    /\ pc = "transcribing"
    /\ pcm' = 0
    /\ IF client_open
         THEN /\ ws_sent' = Append(ws_sent, EvError("transcribe"))
              /\ pc' = "recv"
              /\ UNCHANGED segReply
         ELSE /\ ws_sent' = ws_sent
              /\ Teardown
    /\ UNCHANGED <<forward_transcription, in_speech, speech_buf, since_voice, seq,
                   client_open, transcribed, published, transcript, segGhost, first_frame>>
    /\ UNCHANGED notSeg

\* The client closes its transport.
ClientClose ==
    /\ pc # "closed"
    /\ client_open
    /\ client_open' = FALSE
    /\ UNCHANGED <<pc, forward_transcription, in_speech, speech_buf, since_voice,
                   seq, pcm, ws_sent, transcribed, published, transcript, segGhost, segReply,
                   first_frame>>
    /\ UNCHANGED notSeg

\* ws.receive_bytes() raises WebSocketDisconnect.
RecvDisconnect ==
    /\ pc = "recv"
    /\ ~client_open
    /\ Teardown
    /\ UNCHANGED <<forward_transcription, in_speech, speech_buf, since_voice, seq,
                   pcm, ws_sent, client_open, transcribed, published, transcript, segGhost,
                   first_frame>>
    /\ UNCHANGED notSeg

\* A text message: receive_bytes raises KeyError, the last-resort handler
\* reports it with stage "server" and the finally block runs.
RecvNotBytes ==
    /\ pc = "recv"
    /\ client_open
    /\ Len(ws_sent) + 3 <= MaxSent
    /\ ws_sent' = Append(ws_sent, EvError("server"))
    /\ Teardown
    /\ UNCHANGED <<forward_transcription, in_speech, speech_buf, since_voice, seq,
                   pcm, client_open, transcribed, published, transcript, segGhost, first_frame>>
    /\ UNCHANGED notSeg

\* Reply bodies: the worker's JSON for a job, and a body that is no JSON.
Reply(n) == [json |-> TRUE, seq |-> n]
NotJsonReply == [json |-> FALSE, seq |-> 0]

\* The rag worker's reply to a published job is routed to the connection's
\* reply queue (the default exchange drops it once the queue is deleted).
\* Jobs are answered in any order: a job may have gone through a retry.
ReplyArrives(k) ==
    /\ k \in 1..Len(published)
    /\ k \notin answered
    /\ answered' = answered \cup {k}
    /\ reply_msgs' = IF reply_queue = "declared"
                       THEN Append(reply_msgs, Reply(published[k].seq))
                       ELSE reply_msgs
    /\ UNCHANGED foreign
    /\ UNCHANGED segVars
    /\ UNCHANGED <<fabVars, proxyVars, sessVars, authVars, gwVars, regVars, apiVars>>

\* Some other publisher sends a body that is no JSON to the reply queue.
ForeignReplyArrives ==
    /\ foreign < MaxForeign
    /\ reply_queue = "declared"
    /\ foreign' = foreign + 1
    /\ reply_msgs' = Append(reply_msgs, NotJsonReply)
    /\ UNCHANGED answered
    /\ UNCHANGED segVars
    /\ UNCHANGED <<fabVars, proxyVars, sessVars, authVars, gwVars, regVars, apiVars>>

\* consume_replies, one message: json.loads and ws.send_json of the answer
\* inside try/except; a body that does not parse or a send that fails is
\* logged, and the message is processed all the same.
RepliesSent(sent, m, open) ==
    IF m.json /\ open THEN Append(sent, EvAnswer(m.seq)) ELSE sent

\* consume_replies: the next message of the reply queue is taken.
ForwardReply ==
    /\ reply_task = "consuming"
    /\ reply_msgs # <<>>
    /\ reply_msgs' = Tail(reply_msgs)
    /\ ws_sent' = RepliesSent(ws_sent, Head(reply_msgs), client_open)
    /\ UNCHANGED <<pc, forward_transcription, in_speech, speech_buf, since_voice, seq,
                   pcm, client_open, transcribed, published, transcript, segGhost, segReply,
                   first_frame, answered, foreign>>
    /\ UNCHANGED <<fabVars, proxyVars, sessVars, authVars, gwVars, regVars, apiVars>>

SegNext ==
    \/ Accept
    \/ DeclareReplyQueue
    \/ StartReplyTask
    \/ ReplyTaskRuns
    \/ \E len \in FrameLens : RecvVoice(len)
    \/ \E len \in FrameLens, gap \in Gaps : RecvSilence(len, gap)
    \/ \E text \in Texts, pub_ok \in BOOLEAN : TranscribeDone(text, pub_ok)
    \/ TranscribeFails
    \/ ClientClose
    \/ RecvDisconnect
    \/ RecvNotBytes

\* The handler together with its reply task and the worker's replies; whole
\* frames that arrive at once or after a long gap.
SegReplyNext ==
    \/ Accept
    \/ DeclareReplyQueue
    \/ StartReplyTask
    \/ ReplyTaskRuns
    \/ RecvVoice(FRAME_BYTES)
    \/ \E gap \in {0, SILENCE_CUTOFF_MS} : RecvSilence(FRAME_BYTES, gap)
    \/ \E text \in Texts, pub_ok \in BOOLEAN : TranscribeDone(text, pub_ok)
    \/ TranscribeFails
    \/ ClientClose
    \/ RecvDisconnect
    \/ RecvNotBytes
    \/ \E k \in 1..MaxSeq : ReplyArrives(k)
    \/ ForeignReplyArrives
    \/ ForwardReply

\* Inbound frames that are all of a wrong size: empty, short, long.
WrongLens == FrameLens \ {FRAME_BYTES}

\* The handler on a connection whose frames all have a wrong size, arriving
\* at once or after a long gap.
SegWrongSizeNext ==
    \/ Accept
    \/ DeclareReplyQueue
    \/ StartReplyTask
    \/ ReplyTaskRuns
    \/ \E len \in WrongLens : RecvVoice(len)
    \/ \E len \in WrongLens, gap \in {0, SILENCE_CUTOFF_MS} : RecvSilence(len, gap)
    \/ \E text \in Texts, pub_ok \in BOOLEAN : TranscribeDone(text, pub_ok)
    \/ TranscribeFails
    \/ ClientClose
    \/ RecvDisconnect
    \/ RecvNotBytes

(***************************************************************************)
(* rabbitmq_config.py, rag_worker.py, memory_worker.py and the reply side  *)
(* of stt_server.py                                                        *)
(***************************************************************************)
RAG_EXCHANGE == "rag"
MEMORY_EXCHANGE == "memory"
DLX_EXCHANGE == "dlx"
RAG_QUERIES_QUEUE == "rag.queries"
MEMORY_GATE_QUEUE == "memory.gate"
RAG_QUERIES_DLX_QUEUE == "rag.queries.dlx"
MEMORY_GATE_DLX_QUEUE == "memory.gate.dlx"
MAX_RETRIES == 3

\* Bounds of the fabric model.
MaxJobs == 2

Conns == {"c1", "c2"}
QueryTexts == {"q1", "q2"}
Responses == {"r1"}
DurableQueues == {RAG_QUERIES_QUEUE, RAG_QUERIES_DLX_QUEUE,
                  MEMORY_GATE_QUEUE, MEMORY_GATE_DLX_QUEUE}
DelayQueues == {RAG_QUERIES_DLX_QUEUE, MEMORY_GATE_DLX_QUEUE}

\* The bindings declared by setup_exchanges_and_queues: the queue a message
\* published to exchange ex with routing key rk is routed to.
Binding(ex, rk) ==
    CASE ex = RAG_EXCHANGE /\ rk = "queries" -> RAG_QUERIES_QUEUE
      [] ex = DLX_EXCHANGE /\ rk = "rag.queries.dlx" -> RAG_QUERIES_DLX_QUEUE
      [] ex = MEMORY_EXCHANGE /\ rk = "gate" -> MEMORY_GATE_QUEUE
      [] ex = DLX_EXCHANGE /\ rk = "memory.gate.dlx" -> MEMORY_GATE_DLX_QUEUE
      [] OTHER -> "none"

\* The delay queues' dead-letter targets swapped between the topics.
DeadLetterArgsCrossed(q) ==
    CASE q = RAG_QUERIES_QUEUE -> [exchange |-> DLX_EXCHANGE, routing_key |-> "rag.queries.dlx"]
      [] q = RAG_QUERIES_DLX_QUEUE -> [exchange |-> MEMORY_EXCHANGE, routing_key |-> "gate"]
      [] q = MEMORY_GATE_QUEUE -> [exchange |-> DLX_EXCHANGE, routing_key |-> "memory.gate.dlx"]
      [] q = MEMORY_GATE_DLX_QUEUE -> [exchange |-> RAG_EXCHANGE, routing_key |-> "queries"]

\* x-dead-letter-exchange and x-dead-letter-routing-key of each durable queue.
DeadLetterArgs(q) ==
    CASE q = RAG_QUERIES_QUEUE -> [exchange |-> DLX_EXCHANGE, routing_key |-> "rag.queries.dlx"]
      [] q = RAG_QUERIES_DLX_QUEUE -> [exchange |-> RAG_EXCHANGE, routing_key |-> "queries"]
      [] q = MEMORY_GATE_QUEUE -> [exchange |-> DLX_EXCHANGE, routing_key |-> "memory.gate.dlx"]
      [] q = MEMORY_GATE_DLX_QUEUE -> [exchange |-> MEMORY_EXCHANGE, routing_key |-> "gate"]

\* A broker that dead-letters without recording it in x-death.
XDeathKept(x_death, q, reason) == x_death

\* The x-death header after the broker dead-letters a message out of queue q
\* for a reason: one entry per (queue, reason), its count raised each time.
XDeathAfter(x_death, q, reason) ==
    IF \E e \in x_death : e.queue = q /\ e.reason = reason
      THEN {IF e.queue = q /\ e.reason = reason
              THEN [e EXCEPT !.count = @ + 1] ELSE e : e \in x_death}
      ELSE x_death \cup {[queue |-> q, reason |-> reason, count |-> 1]}

RECURSIVE SumCounts(_)
SumCounts(entries) ==
    IF entries = {} THEN 0
    ELSE LET e == CHOOSE x \in entries : TRUE
         IN e.count + SumCounts(entries \ {e})

\* total = 0; for entry in x_death: total += entry.get("count", 0)
get_retry_count(message) ==
    IF message.x_death = {} THEN 0 ELSE SumCounts(message.x_death)

\* retries >= MAX_RETRIES
RetriesExceeded(retries) == retries >= MAX_RETRIES

\* Mutant of ReplyRoutingKey: every reply goes to one connection's queue.
ReplyRoutingKeyFixed(connection_id) == "c1"

\* routing_key=f"rag.replies.{connection_id}"
ReplyRoutingKey(connection_id) == connection_id

\* A reply published to a queue that is gone raising in the worker.
ReplyPublishRaisesUnroutable(queue_there) == ~queue_there

\* channel.default_exchange.publish(...) on a channel opened with aio_pika's
\* defaults (on_return_raises=False): a returned message raises nothing.
ReplyPublishRaises(queue_there) == FALSE

\* A rejected message put back on the queue it came from.
Requeue(qs, q, m, reason) == [qs EXCEPT ![q] = Append(@, m)]

\* The queues after the broker dead-letters message m out of queue q.
DeadLetter(qs, q, m, reason) ==
    LET args == DeadLetterArgs(q)
        dst == Binding(args.exchange, args.routing_key)
        m2 == [m EXCEPT !.x_death = XDeathAfter(m.x_death, q, reason)]
    IN [qs EXCEPT ![dst] = Append(@, m2)]

\* A discarded message dead-lettered like a failed one.
DiscardDeadLetters(qs, q, m) == DeadLetter(qs, q, m, "rejected")

\* `await message.ack(); return` for a message over the retry maximum: the
\* queues (qs: the message already taken from q) stay as they are.
Discard(qs, q, m) == qs

\* The history counters of deliveries and handler runs count exactly up to
\* CountCap, more than any message of the topology reaches.
CountCap == MAX_RETRIES + 1
Counted(n) == Min(n + 1, CountCap)

FabInit ==
    /\ queues = [q \in DurableQueues |-> <<>>]
    /\ reply_q = [c \in Conns |-> <<>>]
    /\ conn_state = [c \in Conns |-> "new"]
    /\ conn_seq = [c \in Conns |-> 0]
    /\ client_rx = [c \in Conns |-> <<>>]
    /\ next_mid = 1
    /\ jobs_published = {}
    /\ handler_runs = <<>>
    /\ deliveries = <<>>
    /\ discarded = {}
    /\ rag_last = [outcome |-> "", queue_there |-> FALSE]
    /\ reply_errors = 0

\* Bodies that are not what the publishers of the system send: one that is
\* no JSON, and JSON objects that lack fields.
RawBody == [raw |-> "{"]
BadRagBodies == {RawBody, [text |-> "q1"]}
BadGateBodies == {RawBody, [user_message |-> "q1"]}

\* json.loads(message.body.decode()) and the subscripts body["text"],
\* body["connection_id"], body["seq"] all succeed
RagBodyReads(body) == {"text", "connection_id", "seq"} \subseteq DOMAIN body

\* json.loads and body["user_message"], body["assistant_response"] succeed
GateBodyReads(body) == {"user_message", "assistant_response"} \subseteq DOMAIN body

\* json.loads(message.body.decode()) in consume_replies succeeds; the fields
\* are read with data.get
ReplyBodyReads(body) == "raw" \notin DOMAIN body

\* Another publisher sends a body to a worker's queue, ahead of the jobs.
ForeignPublish(q, body) ==
    LET m == [mid |-> next_mid, body |-> body, x_death |-> {}] IN
    /\ next_mid <= MaxForeign
    /\ queues' = [queues EXCEPT ![q] = Append(@, m)]
    /\ next_mid' = next_mid + 1
    /\ handler_runs' = Append(handler_runs, 0)
    /\ deliveries' = Append(deliveries, 0)
    /\ UNCHANGED <<reply_q, conn_state, conn_seq, client_rx, jobs_published, discarded>>
    /\ UNCHANGED <<rag_last, reply_errors>>
    /\ UNCHANGED notFab

\* Another publisher sends a body that is no JSON to a reply queue.
ForeignReply(c) ==
    /\ conn_state[c] = "open"
    /\ \A i \in 1..Len(reply_q[c]) : ReplyBodyReads(reply_q[c][i].body)
    /\ reply_errors < MaxForeign
    /\ reply_q' = [reply_q EXCEPT ![c] = Append(@, [body |-> RawBody, job_conn |-> ""])]
    /\ UNCHANGED <<queues, conn_state, conn_seq, client_rx, next_mid, jobs_published,
                   handler_runs, deliveries, discarded>>
    /\ UNCHANGED <<rag_last, reply_errors>>
    /\ UNCHANGED notFab

\* ws_stt up to the loop: the exclusive reply queue is declared and
\* consume_replies started.
ConnOpen(c) ==
    /\ conn_state[c] = "new"
    /\ conn_state' = [conn_state EXCEPT ![c] = "open"]
    /\ UNCHANGED <<queues, reply_q, conn_seq, client_rx, next_mid, jobs_published,
                   handler_runs, deliveries, discarded>>
    /\ UNCHANGED <<rag_last, reply_errors>>
    /\ UNCHANGED notFab

\* ws_stt after a transcription with non-blank text: seq += 1 and the job
\* published to the rag exchange with routing key "queries".
SttPublish(c, text) ==
    LET n == conn_seq[c] + 1
        body == [text |-> text, connection_id |-> c, seq |-> n]
        m == [mid |-> next_mid, body |-> body, x_death |-> {}]
    IN
    /\ conn_state[c] = "open"
    /\ Cardinality(jobs_published) < MaxJobs
    /\ conn_seq' = [conn_seq EXCEPT ![c] = n]
    /\ queues' = [queues EXCEPT ![Binding(RAG_EXCHANGE, "queries")] = Append(@, m)]
    /\ next_mid' = next_mid + 1
    /\ jobs_published' = jobs_published \cup {body}
    /\ handler_runs' = Append(handler_runs, 0)
    /\ deliveries' = Append(deliveries, 0)
    /\ UNCHANGED <<reply_q, conn_state, client_rx, discarded>>
    /\ UNCHANGED <<rag_last, reply_errors>>
    /\ UNCHANGED notFab

\* rag_worker.on_message for the message at the head of rag.queries.
\* outcome: "ok"; "fail" (the body or the QA chain raises before any publish);
\* "fail_memory" (the memory-gate publish raises after the reply was published).
\* A body that cannot be read always fails.
RagOnMessage(outcome, response) ==
    LET m == Head(queues[RAG_QUERIES_QUEUE])
        rest == [queues EXCEPT ![RAG_QUERIES_QUEUE] = Tail(@)]
        retries == get_retry_count(m)
        reads == RagBodyReads(m.body)
        dest == ReplyRoutingKey(m.body.connection_id)
        reply == [body |-> [query |-> m.body.text, response |-> response,
                            seq |-> m.body.seq],
                  job_conn |-> m.body.connection_id]
        gate == [mid |-> next_mid,
                 body |-> [user_message |-> m.body.text,
                           assistant_response |-> response],
                 x_death |-> {}]
        delivered == [deliveries EXCEPT ![m.mid] = Counted(@)]
        ran == [handler_runs EXCEPT ![m.mid] = Counted(@)]
        queue_there == reads /\ conn_state[dest] = "open"
        \* the default exchange drops a reply to a queue that is gone
        replied == IF queue_there
                     THEN [reply_q EXCEPT ![dest] = Append(@, reply)]
                     ELSE reply_q
        result == IF outcome = "ok" /\ ReplyPublishRaises(queue_there)
                    THEN "fail" ELSE outcome
    IN
    /\ queues[RAG_QUERIES_QUEUE] # <<>>
    /\ ~reads => outcome = "fail"
    /\ rag_last' = IF RetriesExceeded(retries) THEN rag_last
                   ELSE [outcome |-> outcome, queue_there |-> queue_there]
    /\ IF RetriesExceeded(retries)
         THEN \* message.ack() without processing
              /\ queues' = Discard(rest, RAG_QUERIES_QUEUE, m)
              /\ discarded' = discarded \cup {m.mid}
              /\ deliveries' = delivered
              /\ UNCHANGED <<reply_q, next_mid, handler_runs>>
         ELSE IF result = "ok"
         THEN \* reply, memory-gate job, message.ack()
              /\ reply_q' = replied
              /\ queues' = [rest EXCEPT ![Binding(MEMORY_EXCHANGE, "gate")] = Append(@, gate)]
              /\ next_mid' = next_mid + 1
              /\ handler_runs' = Append(ran, 0)
              /\ deliveries' = Append(delivered, 0)
              /\ UNCHANGED discarded
         ELSE \* message.nack(requeue=False): the broker dead-letters the message
              /\ reply_q' = IF result = "fail_memory" THEN replied ELSE reply_q
              /\ queues' = DeadLetter(rest, RAG_QUERIES_QUEUE, m, "rejected")
              /\ handler_runs' = ran
              /\ deliveries' = delivered
              /\ UNCHANGED <<next_mid, discarded>>
    /\ UNCHANGED <<conn_state, conn_seq, client_rx, jobs_published, reply_errors>>
    /\ UNCHANGED notFab

\* memory_worker.on_message for the message at the head of memory.gate.
MemOnMessage(outcome) ==
    LET m == Head(queues[MEMORY_GATE_QUEUE])
        rest == [queues EXCEPT ![MEMORY_GATE_QUEUE] = Tail(@)]
        retries == get_retry_count(m)
    IN
    /\ queues[MEMORY_GATE_QUEUE] # <<>>
    /\ ~GateBodyReads(m.body) => outcome = "fail"
    /\ deliveries' = [deliveries EXCEPT ![m.mid] = Counted(@)]
    /\ IF RetriesExceeded(retries)
         THEN /\ queues' = Discard(rest, MEMORY_GATE_QUEUE, m)
              /\ discarded' = discarded \cup {m.mid}
              /\ UNCHANGED handler_runs
         ELSE /\ handler_runs' = [handler_runs EXCEPT ![m.mid] = Counted(@)]
              /\ UNCHANGED discarded
              /\ IF outcome = "ok"
                   THEN queues' = rest
                   ELSE queues' = DeadLetter(rest, MEMORY_GATE_QUEUE, m, "rejected")
    /\ UNCHANGED <<reply_q, conn_state, conn_seq, client_rx, next_mid, jobs_published>>
    /\ UNCHANGED <<rag_last, reply_errors>>
    /\ UNCHANGED notFab

\* x-message-ttl of a delay queue runs out for the message at its head: the
\* broker dead-letters it to the exchange and routing key of that queue.
DlxExpire(q) ==
    /\ queues[q] # <<>>
    /\ queues' = DeadLetter([queues EXCEPT ![q] = Tail(@)], q, Head(queues[q]), "expired")
    /\ UNCHANGED <<reply_q, conn_state, conn_seq, client_rx, next_mid, jobs_published,
                   handler_runs, deliveries, discarded>>
    /\ UNCHANGED <<rag_last, reply_errors>>
    /\ UNCHANGED notFab

\* consume_replies: one reply of the connection's queue is sent to its
\* client; a body json.loads rejects is logged and passed over.
ConsumeReply(c) ==
    LET r == Head(reply_q[c]) IN
    /\ conn_state[c] = "open"
    /\ reply_q[c] # <<>>
    /\ reply_q' = [reply_q EXCEPT ![c] = Tail(@)]
    /\ client_rx' = IF ReplyBodyReads(r.body)
                       THEN [client_rx EXCEPT ![c] =
                                Append(@, [type |-> "answer", seq |-> r.body.seq,
                                           query |-> r.body.query,
                                           response |-> r.body.response,
                                           job_conn |-> r.job_conn])]
                       ELSE client_rx
    /\ UNCHANGED <<queues, conn_state, conn_seq, next_mid, jobs_published,
                   handler_runs, deliveries, discarded>>
    /\ reply_errors' = IF ReplyBodyReads(r.body) THEN reply_errors ELSE reply_errors + 1
    /\ UNCHANGED rag_last
    /\ UNCHANGED notFab

\* ws_stt's finally block: the reply channel is closed and the exclusive,
\* auto-delete queue goes with its messages.
ConnClose(c) ==
    /\ conn_state[c] = "open"
    /\ conn_state' = [conn_state EXCEPT ![c] = "closed"]
    /\ reply_q' = [reply_q EXCEPT ![c] = <<>>]
    /\ UNCHANGED <<queues, conn_seq, client_rx, next_mid, jobs_published,
                   handler_runs, deliveries, discarded>>
    /\ UNCHANGED <<rag_last, reply_errors>>
    /\ UNCHANGED notFab

FabNext ==
    \/ \E c \in Conns : ConnOpen(c)
    \/ \E c \in Conns, text \in QueryTexts : SttPublish(c, text)
    \/ \E outcome \in {"ok", "fail", "fail_memory"}, response \in Responses :
           RagOnMessage(outcome, response)
    \/ \E outcome \in {"ok", "fail"} : MemOnMessage(outcome)
    \/ \E q \in DelayQueues : DlxExpire(q)
    \/ \E c \in Conns : ConsumeReply(c)
    \/ \E c \in Conns : ConnClose(c)

\* One connection's jobs and replies while other publishers send bodies the
\* consumers cannot read.
BadBodyNext ==
    \/ ConnOpen("c1")
    \/ SttPublish("c1", "q1")
    \/ \E body \in BadRagBodies : ForeignPublish(RAG_QUERIES_QUEUE, body)
    \/ \E body \in BadGateBodies : ForeignPublish(MEMORY_GATE_QUEUE, body)
    \/ ForeignReply("c1")
    \/ \E outcome \in {"ok", "fail", "fail_memory"}, response \in Responses :
           RagOnMessage(outcome, response)
    \/ \E outcome \in {"ok", "fail"} : MemOnMessage(outcome)
    \/ \E q \in DelayQueues : DlxExpire(q)
    \/ ConsumeReply("c1")

\* The jobs of one connection, their retries and the memory-gate jobs.
RetryNext ==
    \/ ConnOpen("c1")
    \/ SttPublish("c1", "q1")
    \/ \E outcome \in {"ok", "fail"}, response \in Responses :
           RagOnMessage(outcome, response)
    \/ \E outcome \in {"ok", "fail"} : MemOnMessage(outcome)
    \/ \E q \in DelayQueues : DlxExpire(q)

(***************************************************************************)
(* gateway/session_manager.py                                              *)
(***************************************************************************)
session_timeout_seconds == 1800
HISTORY_CAP == 100

\* Bounds of the session model.
MaxSessions == 2
MaxAppend == 2
MaxClock == 1800
HistAppends == 102

Procs == {"p1", "p2"}
Users == {"u1", "u2"}
\* A transcription is stored as "user", the answer to it as "assistant".
RoleOf(n) == IF n % 2 = 0 THEN "user" ELSE "assistant"
\* Seconds that pass between two calls.
Advances == {900}
SessionIds == 1..MaxSessions

NoSession == [session_id |-> 0, user_id |-> "", created_at |-> 0,
              last_active |-> 0, conversation_history |-> <<>>]
NoKey == [exists |-> FALSE, expires |-> 0, data |-> NoSession]
NoMapping == [exists |-> FALSE, expires |-> 0, sid |-> 0]
Idle == [pc |-> "idle", op |-> "", user |-> "", sid |-> 0, session |-> NoSession,
         role |-> "", text |-> 0, prev |-> 0, prev_live |-> FALSE]

\* A key set with SETEX is readable until its time to live has run out.
Readable(key, now) == key.exists /\ now < key.expires

\* A SETEX that counts the time to live from the start of the store's clock.
SetexExpiryFromZero(now) == session_timeout_seconds

\* redis.setex(key, settings.session_timeout_seconds, value): the expiry set
SetexExpiry(now) == now + session_timeout_seconds

\* redis.get(f"session:{session_id}") as get_session sees it
SessionLive(sid) == sid \in DOMAIN session_keys /\ Readable(session_keys[sid], sess_clock)

\* redis.get(f"user_session:{user_id}")
MappingLive(u) == Readable(user_session_keys[u], sess_clock)

\* The cap keeping the oldest messages instead of the newest.
CapHistoryOldest(history) ==
    IF Len(history) > HISTORY_CAP THEN SubSeq(history, 1, HISTORY_CAP) ELSE history

\* if len(history) > 100: history = history[-100:]
CapHistory(history) ==
    IF Len(history) > HISTORY_CAP
      THEN SubSeq(history, Len(history) - HISTORY_CAP + 1, Len(history))
      ELSE history

SessInit ==
    /\ sess_clock = 0
    /\ session_keys = [i \in SessionIds |-> NoKey]
    /\ user_session_keys = [u \in Users |-> NoMapping]
    /\ sp = [p \in Procs |-> Idle]
    /\ next_sid = 1
    /\ msg_no = 0
    /\ acked = {}
    /\ last_goc = [u \in Users |-> 0]
    /\ goc_result = [user |-> "", prev |-> 0, prev_live |-> FALSE, sid |-> 0,
                     is_new |-> FALSE]

AllIdle == \A p \in Procs : sp[p].pc = "idle"
\* Calls start one after another (serial) or while others are suspended.
MayStart(p, serial) == sp[p].pc = "idle" /\ (serial => AllIdle)

\* The session ids callers hold: those a create_session has returned.
Returned == {sid \in 1..(next_sid - 1) :
                \A p \in Procs : ~(sp[p].pc = "cs2" /\ sp[p].sid = sid)}

\* Time passes between calls.
Tick(d) ==
    /\ AllIdle
    /\ sess_clock + d <= MaxClock
    /\ sess_clock' = sess_clock + d
    /\ UNCHANGED <<session_keys, user_session_keys, sp, next_sid, msg_no, acked,
                   last_goc, goc_result>>
    /\ UNCHANGED notSess

\* Time passes while a call is suspended at one of its awaits.
Elapse(d) ==
    /\ ~AllIdle
    /\ sess_clock + d <= MaxClock
    /\ sess_clock' = sess_clock + d
    /\ UNCHANGED <<session_keys, user_session_keys, sp, next_sid, msg_no, acked,
                   last_goc, goc_result>>
    /\ UNCHANGED notSess

\* get_or_create_session(user_id) is called.
StartGoc(p, u, serial) ==
    /\ MayStart(p, serial)
    /\ sp' = [sp EXCEPT ![p] = [Idle EXCEPT !.pc = "g1", !.op = "goc", !.user = u,
                                            !.prev = last_goc[u],
                                            !.prev_live = SessionLive(last_goc[u])]]
    /\ UNCHANGED <<sess_clock, session_keys, user_session_keys, next_sid, msg_no,
                   acked, last_goc, goc_result>>
    /\ UNCHANGED notSess

\* existing_session_id = await self.redis.get(f"user_session:{user_id}")
GocReadMapping(p) ==
    /\ sp[p].pc = "g1"
    /\ sp' = [sp EXCEPT ![p] =
                 IF MappingLive(sp[p].user)
                   THEN [@ EXCEPT !.pc = "g2", !.sid = user_session_keys[sp[p].user].sid]
                   ELSE [@ EXCEPT !.pc = "cs1"]]
    /\ UNCHANGED <<sess_clock, session_keys, user_session_keys, next_sid, msg_no,
                   acked, last_goc, goc_result>>
    /\ UNCHANGED notSess

\* session = await self.get_session(existing_session_id)
GocReadSession(p) ==
    /\ sp[p].pc = "g2"
    /\ sp' = [sp EXCEPT ![p] =
                 IF SessionLive(sp[p].sid)
                   THEN [@ EXCEPT !.pc = "r1", !.session = session_keys[sp[p].sid].data]
                   ELSE [@ EXCEPT !.pc = "cs1", !.sid = 0]]
    /\ UNCHANGED <<sess_clock, session_keys, user_session_keys, next_sid, msg_no,
                   acked, last_goc, goc_result>>
    /\ UNCHANGED notSess

\* _refresh_session: last_active set, session:<id> written with the full TTL
RefreshSetSession(p) ==
    LET data == [sp[p].session EXCEPT !.last_active = sess_clock] IN
    /\ sp[p].pc = "r1"
    /\ session_keys' = [session_keys EXCEPT ![sp[p].sid] =
                           [exists |-> TRUE, expires |-> SetexExpiry(sess_clock),
                            data |-> data]]
    /\ sp' = [sp EXCEPT ![p].pc = "r2", ![p].session = data]
    /\ UNCHANGED <<sess_clock, user_session_keys, next_sid, msg_no, acked, last_goc,
                   goc_result>>
    /\ UNCHANGED notSess

\* _refresh_session: user_session:<user_id> written with the full TTL, and
\* get_or_create_session returns (existing_session_id, False)
RefreshSetMapping(p) ==
    LET u == sp[p].session.user_id IN
    /\ sp[p].pc = "r2"
    /\ user_session_keys' =
           IF u \in Users
             THEN [user_session_keys EXCEPT ![u] =
                      [exists |-> TRUE, expires |-> SetexExpiry(sess_clock),
                       sid |-> sp[p].sid]]
             ELSE user_session_keys
    /\ last_goc' = [last_goc EXCEPT ![sp[p].user] = sp[p].sid]
    /\ goc_result' = [user |-> sp[p].user, prev |-> sp[p].prev,
                      prev_live |-> sp[p].prev_live, sid |-> sp[p].sid,
                      is_new |-> FALSE]
    /\ sp' = [sp EXCEPT ![p] = Idle]
    /\ UNCHANGED <<sess_clock, session_keys, next_sid, msg_no, acked>>
    /\ UNCHANGED notSess

\* create_session(user_id) is called directly.
StartCreate(p, u, serial) ==
    /\ MayStart(p, serial)
    /\ sp' = [sp EXCEPT ![p] = [Idle EXCEPT !.pc = "cs1", !.op = "create", !.user = u]]
    /\ UNCHANGED <<sess_clock, session_keys, user_session_keys, next_sid, msg_no,
                   acked, last_goc, goc_result>>
    /\ UNCHANGED notSess

\* create_session: a fresh session id, session:<id> written with empty history
CreateSetSession(p) ==
    LET sid == next_sid
        data == [session_id |-> sid, user_id |-> sp[p].user,
                 created_at |-> sess_clock, last_active |-> sess_clock,
                 conversation_history |-> <<>>]
    IN
    /\ sp[p].pc = "cs1"
    /\ next_sid <= MaxSessions
    /\ next_sid' = next_sid + 1
    /\ session_keys' = [session_keys EXCEPT ![sid] =
                           [exists |-> TRUE, expires |-> SetexExpiry(sess_clock),
                            data |-> data]]
    /\ sp' = [sp EXCEPT ![p].pc = "cs2", ![p].sid = sid, ![p].session = data]
    /\ UNCHANGED <<sess_clock, user_session_keys, msg_no, acked, last_goc, goc_result>>
    /\ UNCHANGED notSess

\* create_session: user_session:<user_id> written, the session id returned
\* (by get_or_create_session as (session_id, True))
CreateSetMapping(p) ==
    /\ sp[p].pc = "cs2"
    /\ user_session_keys' = [user_session_keys EXCEPT ![sp[p].user] =
                                [exists |-> TRUE, expires |-> SetexExpiry(sess_clock),
                                 sid |-> sp[p].sid]]
    /\ IF sp[p].op = "goc"
         THEN /\ last_goc' = [last_goc EXCEPT ![sp[p].user] = sp[p].sid]
              /\ goc_result' = [user |-> sp[p].user, prev |-> sp[p].prev,
                                prev_live |-> sp[p].prev_live, sid |-> sp[p].sid,
                                is_new |-> TRUE]
         ELSE UNCHANGED <<last_goc, goc_result>>
    /\ sp' = [sp EXCEPT ![p] = Idle]
    /\ UNCHANGED <<sess_clock, session_keys, next_sid, msg_no, acked>>
    /\ UNCHANGED notSess

\* add_to_history(session_id, role, text) is called with the next message.
StartAdd(p, sid, role, limit, serial) ==
    /\ MayStart(p, serial)
    /\ sid \in Returned
    /\ msg_no < limit
    /\ msg_no' = msg_no + 1
    /\ sp' = [sp EXCEPT ![p] = [Idle EXCEPT !.pc = "a1", !.op = "add", !.sid = sid,
                                            !.role = role, !.text = msg_no + 1]]
    /\ UNCHANGED <<sess_clock, session_keys, user_session_keys, next_sid, acked,
                   last_goc, goc_result>>
    /\ UNCHANGED notSess

\* add_to_history: session = await self.get_session(session_id); False if none
AddRead(p) ==
    /\ sp[p].pc = "a1"
    /\ sp' = [sp EXCEPT ![p] =
                 IF SessionLive(sp[p].sid)
                   THEN [@ EXCEPT !.pc = "a2", !.session = session_keys[sp[p].sid].data]
                   ELSE Idle]
    /\ UNCHANGED <<sess_clock, session_keys, user_session_keys, next_sid, msg_no,
                   acked, last_goc, goc_result>>
    /\ UNCHANGED notSess

\* add_to_history: append, cap, last_active, setex of session:<id>; returns True
AddWrite(p) ==
    LET message == [role |-> sp[p].role, text |-> sp[p].text, timestamp |-> sess_clock]
        history == CapHistory(Append(sp[p].session.conversation_history, message))
        data == [sp[p].session EXCEPT !.conversation_history = history,
                                      !.last_active = sess_clock]
    IN
    /\ sp[p].pc = "a2"
    /\ session_keys' = [session_keys EXCEPT ![sp[p].sid] =
                           [exists |-> TRUE, expires |-> SetexExpiry(sess_clock),
                            data |-> data]]
    /\ acked' = acked \cup {<<sp[p].sid, sp[p].text>>}
    /\ sp' = [sp EXCEPT ![p] = Idle]
    /\ UNCHANGED <<sess_clock, user_session_keys, next_sid, msg_no, last_goc,
                   goc_result>>
    /\ UNCHANGED notSess

\* update_session(session_id) is called (no keyword arguments).
StartUpdate(p, sid, serial) ==
    /\ MayStart(p, serial)
    /\ sid \in Returned
    /\ sp' = [sp EXCEPT ![p] = [Idle EXCEPT !.pc = "u1", !.op = "update", !.sid = sid]]
    /\ UNCHANGED <<sess_clock, session_keys, user_session_keys, next_sid, msg_no,
                   acked, last_goc, goc_result>>
    /\ UNCHANGED notSess

\* update_session: session = await self.get_session(session_id); False if none
UpdRead(p) ==
    /\ sp[p].pc = "u1"
    /\ sp' = [sp EXCEPT ![p] =
                 IF SessionLive(sp[p].sid)
                   THEN [@ EXCEPT !.pc = "u2", !.session = session_keys[sp[p].sid].data]
                   ELSE Idle]
    /\ UNCHANGED <<sess_clock, session_keys, user_session_keys, next_sid, msg_no,
                   acked, last_goc, goc_result>>
    /\ UNCHANGED notSess

\* update_session: last_active, setex of session:<id>; returns True
UpdWrite(p) ==
    LET data == [sp[p].session EXCEPT !.last_active = sess_clock] IN
    /\ sp[p].pc = "u2"
    /\ session_keys' = [session_keys EXCEPT ![sp[p].sid] =
                           [exists |-> TRUE, expires |-> SetexExpiry(sess_clock),
                            data |-> data]]
    /\ sp' = [sp EXCEPT ![p] = Idle]
    /\ UNCHANGED <<sess_clock, user_session_keys, next_sid, msg_no, acked, last_goc,
                   goc_result>>
    /\ UNCHANGED notSess

\* delete_session(session_id) is called.
StartDelete(p, sid, serial) ==
    /\ MayStart(p, serial)
    /\ sid \in Returned
    /\ sp' = [sp EXCEPT ![p] = [Idle EXCEPT !.pc = "d1", !.op = "delete", !.sid = sid]]
    /\ UNCHANGED <<sess_clock, session_keys, user_session_keys, next_sid, msg_no,
                   acked, last_goc, goc_result>>
    /\ UNCHANGED notSess

\* delete_session: session = await self.get_session(session_id); False if none
DelRead(p) ==
    /\ sp[p].pc = "d1"
    /\ sp' = [sp EXCEPT ![p] =
                 IF SessionLive(sp[p].sid)
                   THEN [@ EXCEPT !.pc = "d2", !.session = session_keys[sp[p].sid].data]
                   ELSE Idle]
    /\ UNCHANGED <<sess_clock, session_keys, user_session_keys, next_sid, msg_no,
                   acked, last_goc, goc_result>>
    /\ UNCHANGED notSess

\* delete_session: await self.redis.delete(f"session:{session_id}")
DelSessionKey(p) ==
    /\ sp[p].pc = "d2"
    /\ session_keys' = [session_keys EXCEPT ![sp[p].sid] = NoKey]
    /\ sp' = [sp EXCEPT ![p] = IF sp[p].session.user_id \in Users
                                 THEN [@ EXCEPT !.pc = "d3"]
                                 ELSE Idle]
    /\ UNCHANGED <<sess_clock, user_session_keys, next_sid, msg_no, acked, last_goc,
                   goc_result>>
    /\ UNCHANGED notSess

\* delete_session: await self.redis.delete(f"user_session:{user_id}"); True
DelMappingKey(p) ==
    /\ sp[p].pc = "d3"
    /\ user_session_keys' = [user_session_keys EXCEPT ![sp[p].session.user_id] =
                                NoMapping]
    /\ sp' = [sp EXCEPT ![p] = Idle]
    /\ UNCHANGED <<sess_clock, session_keys, next_sid, msg_no, acked, last_goc,
                   goc_result>>
    /\ UNCHANGED notSess

\* The steps of a call that is under way.
SessStep(p) ==
    \/ GocReadMapping(p)
    \/ GocReadSession(p)
    \/ RefreshSetSession(p)
    \/ RefreshSetMapping(p)
    \/ CreateSetSession(p)
    \/ CreateSetMapping(p)
    \/ AddRead(p)
    \/ AddWrite(p)
    \/ UpdRead(p)
    \/ UpdWrite(p)
    \/ DelRead(p)
    \/ DelSessionKey(p)
    \/ DelMappingKey(p)

\* Calls made one after another: a call starts when no other is under way.
SessNext ==
    \/ \E d \in Advances : Tick(d)
    \/ \E u \in Users : StartGoc("p1", u, TRUE)
    \/ \E u \in Users : StartCreate("p1", u, TRUE)
    \/ \E sid \in SessionIds : StartAdd("p1", sid, RoleOf(msg_no), MaxAppend, TRUE)
    \/ \E sid \in SessionIds : StartUpdate("p1", sid, TRUE)
    \/ \E sid \in SessionIds : StartDelete("p1", sid, TRUE)
    \/ SessStep("p1")

\* The calls a connection's lifetime is made of, one after another:
\* get_or_create_session on connect, add_to_history and update_session after.
SessUseNext ==
    \/ \E d \in Advances : Tick(d)
    \/ \E u \in Users : StartGoc("p1", u, TRUE)
    \/ \E sid \in SessionIds : StartAdd("p1", sid, RoleOf(msg_no), MaxAppend, TRUE)
    \/ \E sid \in SessionIds : StartUpdate("p1", sid, TRUE)
    \/ GocReadMapping("p1")
    \/ GocReadSession("p1")
    \/ RefreshSetSession("p1")
    \/ RefreshSetMapping("p1")
    \/ CreateSetSession("p1")
    \/ CreateSetMapping("p1")
    \/ AddRead("p1")
    \/ AddWrite("p1")
    \/ UpdRead("p1")
    \/ UpdWrite("p1")

\* One user connecting again and again, time passing between the calls and
\* between the two writes of a call.
SessRejoinNext ==
    \/ \E d \in Advances : Tick(d)
    \/ \E d \in Advances : Elapse(d)
    \/ StartGoc("p1", "u1", TRUE)
    \/ \E sid \in SessionIds : StartAdd("p1", sid, RoleOf(msg_no), MaxAppend, TRUE)
    \/ GocReadMapping("p1")
    \/ GocReadSession("p1")
    \/ RefreshSetSession("p1")
    \/ RefreshSetMapping("p1")
    \/ CreateSetSession("p1")
    \/ CreateSetMapping("p1")
    \/ AddRead("p1")
    \/ AddWrite("p1")

\* Calls of different connections interleaved at their awaits.
SessConcNext ==
    \/ \E p \in Procs : StartGoc(p, "u1", FALSE)
    \/ \E p \in Procs, sid \in SessionIds :
           StartAdd(p, sid, RoleOf(msg_no), MaxAppend, FALSE)
    \/ \E p \in Procs : GocReadMapping(p)
    \/ \E p \in Procs : GocReadSession(p)
    \/ \E p \in Procs : RefreshSetSession(p)
    \/ \E p \in Procs : RefreshSetMapping(p)
    \/ \E p \in Procs : CreateSetSession(p)
    \/ \E p \in Procs : CreateSetMapping(p)
    \/ \E p \in Procs : AddRead(p)
    \/ \E p \in Procs : AddWrite(p)

\* One connection, one user: add_to_history called over and over.
HistNext ==
    \/ StartGoc("p1", "u1", TRUE)
    \/ GocReadMapping("p1")
    \/ GocReadSession("p1")
    \/ RefreshSetSession("p1")
    \/ RefreshSetMapping("p1")
    \/ CreateSetSession("p1")
    \/ CreateSetMapping("p1")
    \/ StartAdd("p1", 1, RoleOf(msg_no), HistAppends, TRUE)
    \/ AddRead("p1")
    \/ AddWrite("p1")

(***************************************************************************)
(* gateway/auth.py: create_access_token, decode_token                      *)
(***************************************************************************)
jwt_expiration_hours == 24
SecondsPerHour == 3600

\* Bounds of the token model.
MaxTokens == 2
MaxTicks == 4

jwt_secret == "secret"
\* Keys a token reaching decode_token may be signed with.
Keys == {jwt_secret, "other"}
\* Seconds by which time advances between calls.
AuthAdvances == {1, jwt_expiration_hours * SecondsPerHour - 1}

NoPayload == [sub |-> "", iat |-> 0, exp |-> 0, jti |-> 0]
NoToken == [payload |-> NoPayload, sig |-> ""]

\* jwt.encode(payload, key, algorithm): the payload and a signature that is
\* a function of the payload and the key.
Sign(payload, key) == <<payload, key>>
jwt_encode(payload, key) == [payload |-> payload, sig |-> Sign(payload, key)]

\* The payload create_access_token builds for user_id at time now.
TokenPayload(user_id, now, jti) ==
    [sub |-> user_id, iat |-> now,
     exp |-> now + jwt_expiration_hours * SecondsPerHour, jti |-> jti]

\* decode_token with the expiry check switched off.
decode_token_any_age(token, now, at_expiry) ==
    IF token.sig # Sign(token.payload, jwt_secret)
      THEN [ok |-> FALSE, payload |-> NoPayload]
      ELSE [ok |-> TRUE, payload |-> token.payload]

\* decode_token: jwt.decode verifies the signature with jwt_secret, then the
\* exp claim; any jwt error makes the result None.  A token presented in the
\* very second of its exp is past it or not by the library's comparison:
\* at_expiry is the outcome then.
decode_token(token, now, at_expiry) ==
    IF token.sig # Sign(token.payload, jwt_secret)
      THEN [ok |-> FALSE, payload |-> NoPayload]
      ELSE IF token.payload.exp < now \/ (token.payload.exp = now /\ ~at_expiry)
        THEN [ok |-> FALSE, payload |-> NoPayload]
        ELSE [ok |-> TRUE, payload |-> token.payload]

\* What a client may present: a token it was given, the same with its expiry
\* pushed out under the old signature, or one signed with another key.
Presentable ==
    tokens
    \cup {[t EXCEPT !.payload.exp = @ + jwt_expiration_hours * SecondsPerHour] :
              t \in tokens}
    \cup {jwt_encode(t.payload, key) : t \in tokens, key \in Keys \ {jwt_secret}}

AuthInit ==
    /\ auth_clock = 0
    /\ ticks = 0
    /\ tokens = {}
    /\ decode_result = [token |-> NoToken, now |-> 0, ok |-> FALSE,
                        payload |-> NoPayload]
    /\ accepted = {}

AuthTick(d) ==
    /\ ticks < MaxTicks
    /\ ticks' = ticks + 1
    /\ auth_clock' = auth_clock + d
    /\ UNCHANGED <<tokens, decode_result, accepted>>
    /\ UNCHANGED notAuth

\* create_access_token(user_id)
CreateAccessToken(user_id) ==
    /\ Cardinality(tokens) < MaxTokens
    /\ tokens' = tokens \cup
           {jwt_encode(TokenPayload(user_id, auth_clock, Cardinality(tokens) + 1),
                       jwt_secret)}
    /\ UNCHANGED <<auth_clock, ticks, decode_result, accepted>>
    /\ UNCHANGED notAuth

\* decode_token(token)
DecodeToken(token, at_expiry) ==
    LET r == decode_token(token, auth_clock, at_expiry) IN
    /\ decode_result' = [token |-> token, now |-> auth_clock, ok |-> r.ok,
                         payload |-> r.payload]
    /\ accepted' = IF r.ok THEN accepted \cup {r.payload.jti} ELSE accepted
    /\ UNCHANGED <<auth_clock, ticks, tokens>>
    /\ UNCHANGED notAuth

AuthNext ==
    \/ \E d \in AuthAdvances : AuthTick(d)
    \/ \E u \in Users : CreateAccessToken(u)
    \/ \E token \in Presentable, at_expiry \in BOOLEAN : DecodeToken(token, at_expiry)

(***************************************************************************)
(* gateway/auth.py: register_user, authenticate_user, get_current_user     *)
(***************************************************************************)
Usernames == {"alice", "bob"}
Passwords == {"pw1", "pw2"}
\* Callers of register_user.
RegProcs == {"r1", "r2"}
\* f"user_{uuid.uuid4().hex[:12]}": the ids in the order they are drawn
UserIdSeq == <<"u1", "u2">>

NoUserData == [user_id |-> "", username |-> "", password_hash |-> <<>>,
               is_active |-> FALSE]
NoUser == [exists |-> FALSE, data |-> NoUserData]
RegIdle == [pc |-> "idle", username |-> "", password |-> "", user_id |-> ""]

\* bcrypt: the hash verifies against the password it was made from only.
hash_password(password) == <<"bcrypt", password>>
verify_password(password, hashed) == hashed = <<"bcrypt", password>>

RegInit ==
    /\ user_keys = [u \in Users |-> NoUser]
    /\ username_keys = [n \in Usernames |-> ""]
    /\ rp = [p \in RegProcs |-> RegIdle]
    /\ next_uid = 1
    /\ registered = {}

RegInFlight == {p \in RegProcs : rp[p].pc # "idle"}

\* register_user(username, password) is called.
StartRegister(p, username, password, serial) ==
    /\ rp[p].pc = "idle"
    /\ serial => RegInFlight = {}
    /\ next_uid + Cardinality(RegInFlight) <= Len(UserIdSeq)
    /\ rp' = [rp EXCEPT ![p] = [RegIdle EXCEPT !.pc = "r1", !.username = username,
                                               !.password = password]]
    /\ UNCHANGED <<user_keys, username_keys, next_uid, registered>>
    /\ UNCHANGED notReg

\* existing = await self.redis.get(f"username:{username}"); None is returned
\* if it is set, else the user id is drawn.
RegCheck(p) ==
    /\ rp[p].pc = "r1"
    /\ IF username_keys[rp[p].username] # ""
         THEN /\ rp' = [rp EXCEPT ![p] = RegIdle]
              /\ UNCHANGED next_uid
         ELSE /\ rp' = [rp EXCEPT ![p].pc = "r2", ![p].user_id = UserIdSeq[next_uid]]
              /\ next_uid' = next_uid + 1
    /\ UNCHANGED <<user_keys, username_keys, registered>>
    /\ UNCHANGED notReg

\* await self.redis.set(f"user:{user_id}", json.dumps(user_data))
RegSetUser(p) ==
    /\ rp[p].pc = "r2"
    /\ user_keys' = [user_keys EXCEPT ![rp[p].user_id] =
                        [exists |-> TRUE,
                         data |-> [user_id |-> rp[p].user_id,
                                   username |-> rp[p].username,
                                   password_hash |-> hash_password(rp[p].password),
                                   is_active |-> TRUE]]]
    /\ rp' = [rp EXCEPT ![p].pc = "r3"]
    /\ UNCHANGED <<username_keys, next_uid, registered>>
    /\ UNCHANGED notReg

\* await self.redis.set(f"username:{username}", user_id); return user_id
RegSetUsername(p) ==
    /\ rp[p].pc = "r3"
    /\ username_keys' = [username_keys EXCEPT ![rp[p].username] = rp[p].user_id]
    /\ registered' = registered \cup
                        {[username |-> rp[p].username, user_id |-> rp[p].user_id]}
    /\ rp' = [rp EXCEPT ![p] = RegIdle]
    /\ UNCHANGED <<user_keys, next_uid>>
    /\ UNCHANGED notReg

\* authenticate_user: the user id the credentials belong to, "" for None.
authenticate_user(username, password) ==
    LET user_id == username_keys[username] IN
    IF user_id = "" THEN ""
    ELSE IF ~user_keys[user_id].exists THEN ""
    ELSE IF ~user_keys[user_id].data.is_active THEN ""
    ELSE IF ~verify_password(password, user_keys[user_id].data.password_hash) THEN ""
    ELSE user_id

\* authenticate_user with valid credentials: a token is created.
Login(username, password) ==
    /\ authenticate_user(username, password) # ""
    /\ CreateAccessToken(authenticate_user(username, password))

\* get_current_user with the expiry of the token ignored.
get_current_user_any_age(token, now, at_expiry) ==
    LET r == decode_token_any_age(token, now, at_expiry) IN
    IF ~r.ok THEN ""
    ELSE IF r.payload.sub \notin Users THEN ""
    ELSE IF ~user_keys[r.payload.sub].exists THEN ""
    ELSE r.payload.sub

\* get_current_user trusting the subject of any token.
get_current_user_unchecked(token, now, at_expiry) ==
    IF token.payload.sub \in Users /\ user_keys[token.payload.sub].exists
      THEN token.payload.sub ELSE ""

\* get_current_user(token): the user id of the user returned, "" for None:
\* decode_token, the "sub" of the payload, get_user.
get_current_user(token, now, at_expiry) ==
    LET r == decode_token(token, now, at_expiry) IN
    IF ~r.ok THEN ""
    ELSE IF r.payload.sub \notin Users THEN ""
    ELSE IF ~user_keys[r.payload.sub].exists THEN ""
    ELSE r.payload.sub

\* register_user calls interleaved at their awaits.
RegNext ==
    \/ \E p \in RegProcs, n \in Usernames, pw \in Passwords :
           StartRegister(p, n, pw, FALSE)
    \/ \E p \in RegProcs : RegCheck(p)
    \/ \E p \in RegProcs : RegSetUser(p)
    \/ \E p \in RegProcs : RegSetUsername(p)

(***************************************************************************)
(* gateway/proxy.py                                                        *)
(***************************************************************************)
\* Bounds of the proxy model.
MaxClientFrames == 2
MaxSttMsgs == 2
MaxCloseCalls == 3

\* Client messages: audio frames and an empty binary frame.
ClientFrames == {"a1", "a2", ""}
DISCONNECT == "websocket.disconnect"

\* A text message of the speech endpoint: a JSON object with its type and
\* its text (the "text" of a final, the "response" of an answer), or a text
\* that is no JSON.
SttEvent(type, text) == [json |-> TRUE, type |-> type, text |-> text]
NotJson == [json |-> FALSE, type |-> "", text |-> "~"]
\* Messages of the speech endpoint.
SttMsgs == {SttEvent("speech_start", ""), SttEvent("final", "hi")}
SttEvents == {SttEvent("speech_start", ""), SttEvent("speech_end", ""),
              SttEvent("final", "hi"), SttEvent("final", " "),
              SttEvent("final", ""), SttEvent("answer", "r1"),
              SttEvent("answer", ""), SttEvent("error", ""), NotJson}

\* Callers of close(): run()'s finally, the handlers of websocket_stt, any other.
CloseCallers == {"run", "main", "other"}
CloseReasons == {"proxy_complete", "client_disconnect", "error"}
NoClose == [code |-> 0, reason |-> ""]
UPSTREAM_FAILED == 1011

\* The session id of the connection's proxy and the caller id under which
\* the proxy calls the session manager.
ProxyCaller == "p1"

ProxyInit ==
    /\ run_pc = "connect"
    /\ c2s_pc = "idle"
    /\ s2c_pc = "idle"
    /\ p_closed = FALSE
    /\ client_ws = "open"
    /\ client_inbox = <<>>
    /\ stt_ws = "none"
    /\ stt_inbox = <<>>
    /\ to_stt = <<>>
    /\ to_client = <<>>
    /\ client_sent = 0
    /\ stt_sent = 0
    /\ closers = [k \in CloseCallers |-> ""]
    /\ close_calls = <<>>
    /\ stt_closes = 0
    /\ connection_ends = <<>>
    /\ client_close = NoClose

\* run(): connect_to_stt(); on failure the client is closed with 1011 and
\* run returns, else both forwarders are started under asyncio.gather.
ProxyConnect(ok) ==
    /\ run_pc = "connect"
    /\ IF ok
         THEN /\ stt_ws' = "open"
              /\ run_pc' = "gather"
              /\ c2s_pc' = "recv"
              /\ s2c_pc' = "recv"
              /\ UNCHANGED <<client_ws, client_close>>
         ELSE /\ client_ws' = "disconnected"
              /\ client_close' = [code |-> UPSTREAM_FAILED,
                                  reason |-> "Failed to connect to STT server"]
              /\ run_pc' = "done"
              /\ UNCHANGED <<stt_ws, c2s_pc, s2c_pc>>
    /\ UNCHANGED <<p_closed, client_inbox, stt_inbox, to_stt, to_client,
                   client_sent, stt_sent, closeVars>>
    /\ UNCHANGED notProxy

\* The client has not closed its transport.
ClientConnected ==
    IF client_inbox = <<>> THEN TRUE
    ELSE client_inbox[Len(client_inbox)] # DISCONNECT

\* The client sends a frame.
ClientSend(f) ==
    /\ client_sent < MaxClientFrames
    /\ client_ws = "open"
    /\ ClientConnected
    /\ client_inbox' = Append(client_inbox, f)
    /\ client_sent' = client_sent + 1
    /\ UNCHANGED <<run_pc, c2s_pc, s2c_pc, p_closed, client_ws, stt_ws, stt_inbox,
                   to_stt, to_client, stt_sent, closeVars, client_close>>
    /\ UNCHANGED notProxy

\* The client closes its transport.
ClientDisconnect ==
    /\ client_ws = "open"
    /\ ClientConnected
    /\ client_inbox' = Append(client_inbox, DISCONNECT)
    /\ UNCHANGED <<run_pc, c2s_pc, s2c_pc, p_closed, client_ws, stt_ws, stt_inbox,
                   to_stt, to_client, client_sent, stt_sent, closeVars, client_close>>
    /\ UNCHANGED notProxy

\* The speech endpoint sends a message.
SttSend(m) ==
    /\ stt_sent < MaxSttMsgs
    /\ stt_ws = "open"
    /\ stt_inbox' = Append(stt_inbox, m)
    /\ stt_sent' = stt_sent + 1
    /\ UNCHANGED <<run_pc, c2s_pc, s2c_pc, p_closed, client_ws, client_inbox, stt_ws,
                   to_stt, to_client, client_sent, closeVars, client_close>>
    /\ UNCHANGED notProxy

\* The speech endpoint closes the upstream connection.
SttClose ==
    /\ stt_ws = "open"
    /\ stt_ws' = "closed_by_stt"
    /\ UNCHANGED <<run_pc, c2s_pc, s2c_pc, p_closed, client_ws, client_inbox,
                   stt_inbox, to_stt, to_client, client_sent, stt_sent, closeVars,
                   client_close>>
    /\ UNCHANGED notProxy

\* `while not self._closed` at the top of forward_client_to_stt's loop
LoopGuard(flag) == ~flag

\* forward_client_to_stt: one pass of the loop, for the next client message.
\* A disconnect message breaks the loop; a send on a closed upstream
\* connection raises and the except clause ends the forwarder.
C2SRecv ==
    LET m == Head(client_inbox) IN
    /\ c2s_pc = "recv"
    /\ IF ~LoopGuard(p_closed)
         THEN /\ c2s_pc' = "done"
              /\ UNCHANGED <<client_inbox, client_ws, to_stt>>
         ELSE /\ client_inbox # <<>>
              /\ client_inbox' = Tail(client_inbox)
              /\ IF m = DISCONNECT
                   THEN /\ c2s_pc' = "done"
                        /\ client_ws' = "disconnected"
                        /\ UNCHANGED to_stt
                   ELSE IF m = ""
                   THEN UNCHANGED <<c2s_pc, client_ws, to_stt>>
                   ELSE IF stt_ws = "open"
                   THEN /\ to_stt' = Append(to_stt, m)
                        /\ UNCHANGED <<c2s_pc, client_ws>>
                   ELSE /\ c2s_pc' = "done"
                        /\ UNCHANGED <<client_ws, to_stt>>
    /\ UNCHANGED <<run_pc, s2c_pc, p_closed, stt_ws, stt_inbox, to_client,
                   client_sent, stt_sent, closeVars, client_close>>
    /\ UNCHANGED notProxy

\* _process_stt_message: the role under which a message goes to the session
\* history, "" when it does not: json.loads, then type "final" with
\* text.strip() stored as "user", type "answer" with response.strip() as
\* "assistant".
StoredRole(m) ==
    IF ~m.json THEN ""
    ELSE IF m.type = "final" /\ Strip(m.text) # "" THEN "user"
    ELSE IF m.type = "answer" /\ Strip(m.text) # "" THEN "assistant"
    ELSE ""

\* forward_stt_to_client: one pass of `async for message in self.stt_ws`:
\* the message is sent to the client, then _process_stt_message calls
\* add_to_history for a final or an answer (the pass ends when that call
\* returns).  The iteration ends when the upstream connection is closed and
\* drained; a send to a disconnected client raises and ends the forwarder.
S2CStep ==
    LET m == Head(stt_inbox)
        role == StoredRole(m)
    IN
    /\ s2c_pc = "recv"
    /\ sp[ProxyCaller].pc = "idle"
    /\ IF stt_inbox # <<>>
         THEN /\ stt_inbox' = Tail(stt_inbox)
              /\ IF p_closed \/ client_ws # "open"
                   THEN /\ s2c_pc' = "done"
                        /\ UNCHANGED <<to_client, sp>>
                   ELSE /\ to_client' = Append(to_client, m)
                        /\ UNCHANGED s2c_pc
                        /\ sp' = IF role = "" THEN sp
                                 ELSE [sp EXCEPT ![ProxyCaller] =
                                          [Idle EXCEPT !.pc = "a1", !.op = "add",
                                                       !.sid = gw_session_id,
                                                       !.role = role,
                                                       !.text = m.text]]
         ELSE /\ stt_ws # "open"
              /\ s2c_pc' = "done"
              /\ UNCHANGED <<stt_inbox, to_client, sp>>
    /\ UNCHANGED <<run_pc, c2s_pc, p_closed, client_ws, client_inbox, stt_ws, to_stt,
                   client_sent, stt_sent, closeVars, client_close>>
    /\ UNCHANGED <<sess_clock, session_keys, user_session_keys, next_sid, msg_no,
                   acked, last_goc, goc_result>>
    /\ UNCHANGED notProxySess

\* asyncio.gather returns once both forwarders have returned
GatherDone(a, b) == a = "done" /\ b = "done"

\* close() with no guard: every call goes through.
AlreadyClosedNever(flag) == FALSE

\* `if self._closed: return`
AlreadyClosed(flag) == flag

\* close(reason) up to its first await, for caller k: the guard, _closed set;
\* with no upstream connection there is no await and connection_end is
\* emitted at once.
CloseBegin(k, reason) ==
    /\ close_calls' = Append(close_calls, reason)
    /\ IF AlreadyClosed(p_closed)
         THEN UNCHANGED <<p_closed, closers, connection_ends>>
         ELSE /\ p_closed' = TRUE
              /\ IF stt_ws # "none"
                   THEN /\ closers' = [closers EXCEPT ![k] = reason]
                        /\ UNCHANGED connection_ends
                   ELSE /\ connection_ends' = Append(connection_ends, reason)
                        /\ UNCHANGED closers

\* close() after `await self.stt_ws.close()`: connection_end is emitted.
CloseEnd(k) ==
    /\ closers[k] # ""
    /\ stt_closes' = stt_closes + 1
    /\ stt_ws' = "closed_by_proxy"
    /\ connection_ends' = Append(connection_ends, closers[k])
    /\ closers' = [closers EXCEPT ![k] = ""]
    /\ UNCHANGED <<p_closed, close_calls>>

\* run()'s finally: close("proxy_complete") is called.
RunFinally ==
    /\ run_pc = "gather"
    /\ GatherDone(c2s_pc, s2c_pc)
    /\ CloseBegin("run", "proxy_complete")
    /\ run_pc' = IF closers'["run"] # "" THEN "closing" ELSE "done"
    /\ UNCHANGED <<c2s_pc, s2c_pc, client_ws, client_inbox, stt_ws, stt_inbox,
                   to_stt, to_client, client_sent, stt_sent, stt_closes,
                   client_close>>
    /\ UNCHANGED notProxy

\* run()'s finally: close("proxy_complete") returns, and run with it.
RunClosed ==
    /\ run_pc = "closing"
    /\ CloseEnd("run")
    /\ run_pc' = "done"
    /\ UNCHANGED <<c2s_pc, s2c_pc, client_ws, client_inbox, stt_inbox, to_stt,
                   to_client, client_sent, stt_sent, client_close>>
    /\ UNCHANGED notProxy

\* close(reason) called from outside run(): by the handlers of websocket_stt
\* ("main") or by any other holder of the proxy.
CloseCall(k, reason) ==
    /\ k # "run"
    /\ closers[k] = ""
    /\ Len(close_calls) < MaxCloseCalls
    /\ CloseBegin(k, reason)
    /\ UNCHANGED <<run_pc, c2s_pc, s2c_pc, client_ws, client_inbox, stt_ws,
                   stt_inbox, to_stt, to_client, client_sent, stt_sent, stt_closes,
                   client_close>>
    /\ UNCHANGED notProxy

\* The close() of caller k returns after its await.
CloseReturn(k) ==
    /\ k # "run"
    /\ CloseEnd(k)
    /\ UNCHANGED <<run_pc, c2s_pc, s2c_pc, client_ws, client_inbox, stt_inbox,
                   to_stt, to_client, client_sent, stt_sent, client_close>>
    /\ UNCHANGED notProxy

ProxyNext ==
    \/ \E ok \in BOOLEAN : ProxyConnect(ok)
    \/ \E f \in ClientFrames : ClientSend(f)
    \/ ClientDisconnect
    \/ \E m \in SttMsgs : SttSend(m)
    \/ SttClose
    \/ C2SRecv
    \/ S2CStep
    \/ AddRead(ProxyCaller)
    \/ RunFinally
    \/ RunClosed

\* The proxy with close() called from outside run() as well.
CloseNext ==
    \/ \E ok \in BOOLEAN : ProxyConnect(ok)
    \/ ClientSend("a1")
    \/ ClientDisconnect
    \/ SttSend(SttEvent("speech_start", ""))
    \/ SttClose
    \/ C2SRecv
    \/ S2CStep
    \/ RunFinally
    \/ RunClosed
    \/ \E k \in CloseCallers, reason \in CloseReasons : CloseCall(k, reason)
    \/ \E k \in CloseCallers : CloseReturn(k)

(***************************************************************************)
(* gateway/main.py: websocket_stt                                          *)
(***************************************************************************)
\* close codes of websocket_stt
MISSING_TOKEN_CODE == 4001
INVALID_TOKEN_CODE == 4001
MISSING_TOKEN == [code |-> MISSING_TOKEN_CODE, reason |-> "Missing token"]
INVALID_TOKEN == [code |-> INVALID_TOKEN_CODE, reason |-> "Invalid or expired token"]

\* Messages of the speech endpoint on a gateway connection.
GwSttMsgs == {SttEvent("ready", ""), SttEvent("speech_start", "")}

GwInit ==
    /\ gw_pc = "new"
    /\ gw_token = NoToken
    /\ gw_user = ""
    /\ gw_session_id = 0

\* A client connects to /ws/stt with the token query parameter, and
\* websocket.accept() is awaited.
GwAccept(token) ==
    /\ gw_pc = "new"
    /\ gw_pc' = "accepted"
    /\ gw_token' = token
    /\ UNCHANGED <<gw_user, gw_session_id>>
    /\ UNCHANGED notGw

\* `if not token`
TokenMissing(token) == token = NoToken

\* websocket_stt after accept: a missing token closes the connection, then
\* get_current_user(token), and None closes the connection.
GwAuthenticate(at_expiry) ==
    LET user == get_current_user(gw_token, auth_clock, at_expiry) IN
    /\ gw_pc = "accepted"
    /\ IF TokenMissing(gw_token)
         THEN /\ client_close' = MISSING_TOKEN
              /\ client_ws' = "disconnected"
              /\ gw_pc' = "returned"
              /\ UNCHANGED gw_user
         ELSE IF user = ""
         THEN /\ client_close' = INVALID_TOKEN
              /\ client_ws' = "disconnected"
              /\ gw_pc' = "returned"
              /\ UNCHANGED gw_user
         ELSE /\ gw_user' = user
              /\ gw_pc' = "session"
              /\ UNCHANGED <<client_close, client_ws>>
    /\ UNCHANGED <<gw_token, gw_session_id>>
    /\ UNCHANGED <<run_pc, c2s_pc, s2c_pc, p_closed, client_inbox, stt_ws, stt_inbox,
                   to_stt, to_client, client_sent, stt_sent, closeVars>>
    /\ UNCHANGED <<segVars, fwdVars, fabVars, sessVars, authVars, regVars, apiVars>>

\* session_manager.get_or_create_session(user_id, trace_id) is called.
GwStartSession ==
    /\ gw_pc = "session"
    /\ goc_result.user = ""
    /\ StartGoc(ProxyCaller, gw_user, TRUE)

\* get_or_create_session has returned: the proxy is built with session_id.
GwSessionReady ==
    /\ gw_pc = "session"
    /\ goc_result.user # ""
    /\ sp[ProxyCaller].pc = "idle"
    /\ gw_session_id' = goc_result.sid
    /\ gw_pc' = "run"
    /\ UNCHANGED <<gw_token, gw_user>>
    /\ UNCHANGED notGw

\* proxy.run() has returned, and websocket_stt with it.
GwReturn ==
    /\ gw_pc = "run"
    /\ run_pc = "done"
    /\ gw_pc' = "returned"
    /\ UNCHANGED <<gw_token, gw_user, gw_session_id>>
    /\ UNCHANGED notGw

(***************************************************************************)
(* gateway/main.py: get_session                                            *)
(***************************************************************************)
NoResponse == [session_id |-> 0, user_id |-> "", created_at |-> 0,
               last_active |-> 0, history_length |-> 0]

\* SessionResponse(session_id=..., history_length=len(conversation_history))
SessionResponse(session) ==
    [session_id |-> session.session_id, user_id |-> session.user_id,
     created_at |-> session.created_at, last_active |-> session.last_active,
     history_length |-> Len(session.conversation_history)]

\* Mutant of OwnedBy: the ownership check passes for every session.
OwnedByAnyone(session, user_id) == TRUE

\* `session.get("user_id") != user["user_id"]` raises 403: its negation
OwnedBy(session, user_id) == session.user_id = user_id

\* How often the tokens age before a session is asked for.
TokenAgeings == 2

GsInit ==
    gs_result = [asked |-> FALSE, session_id |-> 0, token |-> NoToken, status |-> 0,
                 body |-> NoResponse]

\* GET /session/{session_id}?token=...: get_current_user, get_session, the
\* ownership check, the response.
GetSession(session_id, token, at_expiry) ==
    LET user == get_current_user(token, auth_clock, at_expiry)
        session == session_keys[session_id].data
        status == IF user = "" THEN 401
                  ELSE IF ~SessionLive(session_id) THEN 404
                  ELSE IF ~OwnedBy(session, user) THEN 403
                  ELSE 200
    IN
    /\ gs_result' = [asked |-> TRUE, session_id |-> session_id, token |-> token,
                     status |-> status,
                     body |-> IF status = 200 THEN SessionResponse(session)
                              ELSE NoResponse]
    /\ UNCHANGED <<segVars, fwdVars, fabVars, proxyVars, sessVars, authVars, gwVars,
                   regVars>>

\* A user has logged in and has not connected yet.
\* POST /auth/refresh?token=...: get_current_user, then a new token for the
\* user; 401 and nothing issued when get_current_user returns None.
RefreshToken(token, at_expiry) ==
    LET user == get_current_user(token, auth_clock, at_expiry) IN
    /\ user # ""
    /\ CreateAccessToken(user)

\* The record user:<user_id> rewritten with is_active false.  No operation of
\* the gateway does this: the field is written by whoever administers the
\* store.
Deactivate(user_id) ==
    /\ user_keys[user_id].exists
    /\ user_keys[user_id].data.is_active
    /\ user_keys' = [user_keys EXCEPT ![user_id].data.is_active = FALSE]
    /\ UNCHANGED <<username_keys, rp, next_uid, registered>>
    /\ UNCHANGED notReg

FirstConnect(u) == (\E t \in tokens : t.payload.sub = u) /\ last_goc[u] = 0

\* Two users register and log in, alice first; each connects once, which
\* creates its session, and a message is added to a history while the
\* sessions' time passes; then the tokens age; and all along sessions are
\* asked for with the tokens clients can present.
GsNext ==
    \/ /\ ticks = 0
       /\ \/ StartRegister("r1", "alice", "pw1", TRUE)
          \/ tokens # {} /\ StartRegister("r1", "bob", "pw2", TRUE)
          \/ RegCheck("r1")
          \/ RegSetUser("r1")
          \/ RegSetUsername("r1")
          \/ tokens = {} /\ Login("alice", "pw1")
          \/ Login("bob", "pw2")
          \/ \E u \in Users : FirstConnect(u) /\ StartGoc("p1", u, TRUE)
          \/ GocReadMapping("p1")
          \/ CreateSetSession("p1")
          \/ CreateSetMapping("p1")
          \/ \E sid \in SessionIds : StartAdd("p1", sid, RoleOf(msg_no), 1, TRUE)
          \/ AddRead("p1")
          \/ AddWrite("p1")
          \/ \E d \in Advances : Tick(d)
    \/ \E d \in AuthAdvances : ticks < TokenAgeings /\ AuthTick(d)
    \/ \E sid \in SessionIds, token \in Presentable, at_expiry \in BOOLEAN :
           GetSession(sid, token, at_expiry)

\* A user registers and logs in, time passes, and one client connects to
\* /ws/stt with a token of its choice.
\* A user registers, logs in and connects once; the user's record is then
\* deactivated and the token issued before is presented to every endpoint.
DeactNext ==
    \/ /\ ticks = 0
       /\ \/ StartRegister("r1", "alice", "pw1", TRUE)
          \/ RegCheck("r1")
          \/ RegSetUser("r1")
          \/ RegSetUsername("r1")
          \/ \E u \in Users : FirstConnect(u) /\ StartGoc("p1", u, TRUE)
          \/ GocReadMapping("p1")
          \/ CreateSetSession("p1")
          \/ CreateSetMapping("p1")
    \/ Login("alice", "pw1")
    \/ \E u \in Users : Deactivate(u)
    \/ \E d \in AuthAdvances : ticks < TokenAgeings /\ AuthTick(d)
    \/ \E token \in tokens, at_expiry \in BOOLEAN : RefreshToken(token, at_expiry)
    \/ \E token \in tokens : GwAccept(token)
    \/ \E at_expiry \in BOOLEAN : GwAuthenticate(at_expiry)
    \/ \E sid \in SessionIds, token \in tokens, at_expiry \in BOOLEAN :
           GetSession(sid, token, at_expiry)

GwNext ==
    \/ /\ gw_pc = "new"
       /\ \/ StartRegister("r1", "alice", "pw1", TRUE)
          \/ RegCheck("r1")
          \/ RegSetUser("r1")
          \/ RegSetUsername("r1")
          \/ Login("alice", "pw1")
          \/ \E d \in AuthAdvances : AuthTick(d)
    \/ \E token \in {NoToken} \cup Presentable : GwAccept(token)
    \/ \E at_expiry \in BOOLEAN : GwAuthenticate(at_expiry)
    \/ GwStartSession
    \/ GocReadMapping(ProxyCaller)
    \/ CreateSetSession(ProxyCaller)
    \/ CreateSetMapping(ProxyCaller)
    \/ GwSessionReady
    \/ /\ gw_pc \notin {"new", "returned"}
       /\ client_ws = "open"
       /\ \/ ClientSend("a1")
          \/ ClientDisconnect
    \/ /\ gw_pc = "run"
       /\ \/ \E ok \in BOOLEAN : ProxyConnect(ok)
          \/ \E m \in GwSttMsgs : SttSend(m)
          \/ SttClose
          \/ C2SRecv
          \/ S2CStep
          \/ RunFinally
          \/ RunClosed
    \/ GwReturn

\* One authenticated connection: the events of the speech endpoint pass
\* through the proxy while time passes.
InterceptNext ==
    \/ /\ gw_pc = "new"
       /\ \/ StartRegister("r1", "alice", "pw1", TRUE)
          \/ RegCheck("r1")
          \/ RegSetUser("r1")
          \/ RegSetUsername("r1")
          \/ Login("alice", "pw1")
    \/ \E token \in tokens : GwAccept(token)
    \/ \E at_expiry \in BOOLEAN : GwAuthenticate(at_expiry)
    \/ GwStartSession
    \/ GocReadMapping(ProxyCaller)
    \/ CreateSetSession(ProxyCaller)
    \/ CreateSetMapping(ProxyCaller)
    \/ GwSessionReady
    \/ /\ gw_pc = "run"
       /\ \/ ProxyConnect(TRUE)
          \/ \E m \in SttEvents : SttSend(m)
          \/ SttClose
          \/ ClientDisconnect
          \/ C2SRecv
          \/ S2CStep
          \/ AddRead(ProxyCaller)
          \/ AddWrite(ProxyCaller)
          \/ \E d \in Advances : Tick(d)
          \/ RunFinally
          \/ RunClosed
    \/ GwReturn

InitAll ==
    SegInit /\ FabInit /\ ProxyInit /\ SessInit /\ AuthInit /\ GwInit /\ RegInit
    /\ GsInit

SpecSeg == InitAll /\ [][SegNext]_vars
SpecSegReply == InitAll /\ [][SegReplyNext]_vars
SpecSegWrongSize == InitAll /\ [][SegWrongSizeNext]_vars
SpecFabric == InitAll /\ [][FabNext]_vars
SpecBadBody == InitAll /\ [][BadBodyNext]_vars
SpecProxy == InitAll /\ [][ProxyNext]_vars
SpecClose == InitAll /\ [][CloseNext]_vars
SpecSession == InitAll /\ [][SessNext]_vars
SpecSessionUse == InitAll /\ [][SessUseNext]_vars
SpecSessionConc == InitAll /\ [][SessConcNext]_vars
SpecSessionRejoin == InitAll /\ [][SessRejoinNext]_vars
SpecHistory == InitAll /\ [][HistNext]_vars
SpecAuth == InitAll /\ [][AuthNext]_vars
SpecRegister == InitAll /\ [][RegNext]_vars
SpecGateway == InitAll /\ [][GwNext]_vars
SpecIntercept == InitAll /\ [][InterceptNext]_vars
SpecSessionApi == InitAll /\ [][GsNext]_vars
SpecDeactivated == InitAll /\ [][DeactNext]_vars
\* The event loop runs every task that is ready: each step of the proxy that
\* can be taken is taken; the client and the speech endpoint owe nothing.
\* The broker delivers the head of a queue to its consumer and lets the TTL
\* of a delay queue run out; whether a handler succeeds is not owed.
FairSpecRetry ==
    /\ InitAll /\ [][RetryNext]_vars
    /\ WF_vars(\E outcome \in {"ok", "fail"}, response \in Responses :
                   RagOnMessage(outcome, response))
    /\ WF_vars(\E outcome \in {"ok", "fail"} : MemOnMessage(outcome))
    /\ \A q \in DelayQueues : WF_vars(DlxExpire(q))
FairSpecProxy ==
    /\ SpecProxy
    /\ WF_vars(\E ok \in BOOLEAN : ProxyConnect(ok))
    /\ WF_vars(C2SRecv)
    /\ WF_vars(S2CStep)
    /\ WF_vars(AddRead(ProxyCaller))
    /\ WF_vars(RunFinally)
    /\ WF_vars(RunClosed)

(***************************************************************************)
(* Claims about the segmentation loop                                      *)
(***************************************************************************)
IsBoundary(e) == e.type \in {"speech_start", "speech_end"}
Boundaries == SelectSeq(ws_sent, IsBoundary)
CountType(t) == Cardinality({i \in 1..Len(ws_sent) : ws_sent[i].type = t})

DurationMs(n) == (n * 1000) \div (SAMPLE_RATE * SAMPLE_WIDTH)

\* C2: no buffer shorter than MIN_UTTERANCE_MS is handed to the transcription,
\* and the speech_end of such an utterance is followed at once by
\* final {text: "", reason: "too_short"}.
C2_TooShortNeverTranscribed ==
    /\ \A n \in transcribed : DurationMs(n) >= MIN_UTTERANCE_MS
    /\ (last_end.at > 0 /\ DurationMs(last_end.bytes) < MIN_UTTERANCE_MS) =>
           /\ Len(ws_sent) > last_end.at
           /\ ws_sent[last_end.at] = EvSpeechEnd
           /\ ws_sent[last_end.at + 1] = EvTooShort
           /\ last_end.bytes \notin transcribed

\* An utterance of 12 frames (240 ms) has ended as too short, and one of 13
\* frames (260 ms) has been transcribed.
C2_Witness ==
    /\ last_end.at > 0
    /\ last_end.bytes = 12 * FRAME_BYTES
    /\ 13 * FRAME_BYTES \in transcribed
\* The final messages that carry a seq (the too_short ones carry none).
SeqFinals == SelectSeq(ws_sent, LAMBDA e : e.type = "final" /\ e.tag # "too_short")

\* C15 as amended: the numbers on the finals strictly increase, those on the
\* jobs strictly increase, every number is at least 1 and at most the count
\* of transcriptions completed; with forward_transcription the i-th final
\* carries i and every job carries the number and text of a final.
C15_SeqStrictlyIncreasing ==
    /\ \A i, j \in 1..Len(SeqFinals) : i < j => SeqFinals[i].seq < SeqFinals[j].seq
    /\ \A i, j \in 1..Len(published) : i < j => published[i].seq < published[j].seq
    /\ \A i \in 1..Len(SeqFinals) : SeqFinals[i].seq >= 1 /\ SeqFinals[i].seq <= seq
    /\ \A i \in 1..Len(published) : published[i].seq >= 1 /\ published[i].seq <= seq
    /\ forward_transcription =>
           /\ \A i \in 1..Len(SeqFinals) : SeqFinals[i].seq = i
           /\ \A i \in 1..Len(published) :
                  \E k \in 1..Len(SeqFinals) :
                      /\ SeqFinals[k].seq = published[i].seq
                      /\ SeqFinals[k].text = published[i].text

\* C15 as stated: besides increasing strictly, the numbers attached to the
\* finals and jobs of the connection start at 1.
C15_SeqStartsAtOne ==
    /\ C15_SeqStrictlyIncreasing
    /\ (SeqFinals # <<>> \/ published # <<>>) =>
           \/ (SeqFinals # <<>> /\ SeqFinals[1].seq = 1)
           \/ (published # <<>> /\ published[1].seq = 1)

\* Two finals and two jobs, numbered 1 and 2.
C15_Witness ==
    /\ Len(SeqFinals) = 2
    /\ Len(published) = 2
    /\ published[2].seq = 2

\* C16: a transcription that ends without a text while the client is there
\* sends error/transcribe and nothing else, and leaves the handler in its
\* receive loop, out of speech, with an empty buffer and its reply queue.
C16_TranscribeErrorKeepsConnection ==
    [][(pc = "transcribing" /\ pc' # "transcribing" /\ seq' = seq /\ client_open)
          => /\ ws_sent' = Append(ws_sent, EvError("transcribe"))
             /\ pc' = "recv"
             /\ ~in_speech'
             /\ speech_buf' = 0
             /\ UNCHANGED <<segReply, published>>]_vars

\* After an error/transcribe a later utterance got its final with a text.
C16_Witness ==
    \E i, j \in 1..Len(ws_sent) :
        /\ i < j
        /\ ws_sent[i] = EvError("transcribe")
        /\ ws_sent[j].type = "final"
        /\ ws_sent[j].text # ""
        /\ pc = "recv"

\* C18: when the first frame is received the reply queue is declared and
\* the consume_replies task created; the queue is there whenever the handler
\* receives or transcribes, so before any job is published.
C18_ReplyQueueBeforeAudio ==
    /\ first_frame.seen =>
           /\ first_frame.queue = "declared"
           /\ first_frame.task \in {"created", "consuming"}
    /\ pc \in {"recv", "transcribing"} =>
           /\ reply_queue = "declared"
           /\ reply_task \in {"created", "consuming"}
    /\ published # <<>> => reply_queue \in {"declared", "deleted"}

\* A job has been published on a connection whose consumer is running.
C18_Witness ==
    /\ first_frame.seen
    /\ first_frame.queue = "declared"
    /\ published # <<>>
    /\ reply_task = "consuming"

\* C23: on an accepted connection the ready message, with sample_rate,
\* frame_ms, frame_bytes, silence_cutoff_ms and connection_id, is the first
\* message the server sends (before any speech_start, speech_end, final,
\* answer or error), and no later message is a ready message.
C23_ReadyFirstOnce ==
    /\ pc \notin {"accept", "closed"} => ws_sent # <<>>
    /\ \A i \in 1..Len(ws_sent) : (ws_sent[i].type = "ready") <=> (i = 1)
    /\ ws_sent # <<>> =>
           /\ ws_sent[1].sample_rate = 16000
           /\ ws_sent[1].frame_ms = 20
           /\ ws_sent[1].frame_bytes = 640
           /\ ws_sent[1].silence_cutoff_ms = 700
           /\ ws_sent[1].connection_id = CONN_ID

\* Speech events, a final and an answer have all followed the ready message.
C23_Witness ==
    /\ Len(ws_sent) >= 5
    /\ \E i \in 1..Len(ws_sent) : ws_sent[i].type = "answer"
    /\ \E i \in 1..Len(ws_sent) : ws_sent[i].type = "final"
    /\ \E i \in 1..Len(ws_sent) : ws_sent[i].type = "speech_end"

\* The receive loop is waiting for a frame the bounds of the model have room for.
LoopWaiting ==
    /\ pc = "recv"
    /\ client_open
    /\ Len(ws_sent) + 3 <= MaxSent
    /\ seq < MaxSeq
    /\ speech_buf + FRAME_BYTES <= MaxBufFrames * FRAME_BYTES

\* C35: on a connection whose frames are empty, short or long the utterance
\* buffer always holds a whole number of frames of FRAME_BYTES; a frame of
\* any of these lengths is taken by the waiting loop, and taking it keeps
\* the handler in its loop (receiving, or transcribing the utterance ended).
C35_BufferWholeFrames ==
    /\ [](speech_buf % FRAME_BYTES = 0 /\ pcm % FRAME_BYTES = 0)
    /\ [](LoopWaiting => \A len \in WrongLens : ENABLED RecvSilence(len, SILENCE_CUTOFF_MS))
    /\ [][\A len \in WrongLens :
            (RecvVoice(len) \/ \E gap \in Gaps : RecvSilence(len, gap))
                => pc' \in {"recv", "transcribing"}]_vars

\* An utterance of three frames, none of which came with FRAME_BYTES bytes,
\* is in the buffer.
C35_Witness ==
    /\ in_speech
    /\ speech_buf = 3 * FRAME_BYTES

\* C36: outside speech the utterance buffer is empty and in speech it is
\* not; the audio handed to transcription at a speech_end is made of the
\* speech frames received since that utterance's speech_start and of
\* nothing else.
C36_BufferPerUtterance ==
    /\ [](~in_speech => speech_buf = 0)
    /\ [](in_speech => speech_buf > 0)
    /\ [][(pc = "recv" /\ pc' = "transcribing") => pcm' = utter_bytes]_vars

\* The second utterance of a connection is being transcribed.
C36_Witness ==
    /\ pc = "transcribing"
    /\ seq = 1
    /\ pcm = 13 * FRAME_BYTES

\* The messages a step sends to the client.
SentInStep == SubSeq(ws_sent', Len(ws_sent) + 1, Len(ws_sent'))

\* C38: the step that ends an utterance's transcription sends an error with
\* stage transcribe only if it sends no final and leaves seq as it was (and
\* so a step that sends a final with a seq sends no transcribe error).
C38_TranscribeErrorExcludesFinal ==
    [][(pc = "transcribing" /\ Len(ws_sent') >= Len(ws_sent)
          /\ \E i \in 1..Len(SentInStep) : SentInStep[i] = EvError("transcribe"))
          => /\ seq' = seq
             /\ \A i \in 1..Len(SentInStep) : SentInStep[i].type # "final"]_vars

\* The handler leaves its receive loop in this step.
LoopExit == pc \in {"recv", "transcribing"} /\ pc' = "closed"

\* C32: a step that leaves the receive loop cancels the reply task and
\* deletes the reply queue; with the client's transport still open the step
\* sends an error with stage server as its last message; and once the
\* handler has ended nothing more is sent to the client, no answer either.
C32_LoopExitTearsDown ==
    /\ [][LoopExit => reply_task' = "cancelled" /\ reply_queue' = "deleted"]_vars
    /\ [][(LoopExit /\ client_open) =>
              /\ Len(ws_sent') = Len(ws_sent) + 1
              /\ ws_sent'[Len(ws_sent')] = EvError("server")]_vars
    /\ [][pc = "closed" => ws_sent' = ws_sent]_vars

\* The handler has ended on an unexpected failure while a reply was waiting
\* in its queue.
C32_Witness ==
    /\ pc = "closed"
    /\ reply_task = "cancelled"
    /\ reply_msgs # <<>>
    /\ ws_sent[Len(ws_sent)] = EvError("server")

\* C40: with transcript forwarding on, every answer sent to the client
\* comes after the final with the same seq.
C40_FinalBeforeAnswer ==
    forward_transcription =>
        \A j \in 1..Len(ws_sent) :
            ws_sent[j].type = "answer" =>
                \E i \in 1..(j - 1) : ws_sent[i] = EvFinal("hi", ws_sent[j].seq)

\* The answer to the second utterance was sent before the answer to the first.
C40_Witness ==
    /\ forward_transcription
    /\ \E i, j \in 1..Len(ws_sent) :
           /\ i < j
           /\ ws_sent[i].type = "answer" /\ ws_sent[i].seq = 2
           /\ ws_sent[j].type = "answer" /\ ws_sent[j].seq = 1

\* C25: a non-speech frame received in speech while the silence is below
\* the cutoff (the silence grows and the utterance goes on) is appended to
\* the utterance buffer.
C25_PauseFramesBuffered ==
    [][(pc = "recv" /\ in_speech /\ in_speech' /\ since_voice' > since_voice)
          => speech_buf' = speech_buf + FRAME_BYTES]_vars

\* C26: a speech_end comes only after at least SILENCE_CUTOFF_MS worth of
\* non-speech frames in a row (35 frames of 20 ms) were received in speech,
\* whatever the times between the frames.
C26_EndAfterCutoffFrames ==
    [][(pc = "recv" /\ in_speech /\ ~in_speech')
          => (quiet_frames + 1) * FRAME_MS >= SILENCE_CUTOFF_MS]_vars

\* A step in which a transcription returns a transcript that is not empty.
TranscriptReturned ==
    pc = "transcribing" /\ seq' # seq /\ transcript' # ""

\* The job of the utterance whose transcription returns in this step.
UtteranceJob ==
    [text |-> transcript', connection_id |-> CONN_ID, seq |-> seq']

\* This step publishes the utterance's job and, when finals are forwarded,
\* sends the final with the same seq.
JobPublished ==
    /\ published' = Append(published, UtteranceJob)
    /\ forward_transcription => ws_sent' = Append(ws_sent, EvFinal(transcript', seq'))

\* C29 as stated: a step in which a transcription returns a non-empty
\* transcript publishes exactly one job, with the connection's id and the
\* seq of the utterance's final; no other step (too short, empty transcript,
\* failure, timeout) publishes a job.
C29_OneJobPerUtterance ==
    [][IF TranscriptReturned THEN JobPublished ELSE published' = published]_vars

\* C29 amended: a non-empty transcript leads to its one job unless the
\* final could not be sent to a client that has gone (the handler ends) or
\* the publish raised (a transcribe error is sent after the final); no other
\* step publishes a job.
C29_AtMostOneJobPerUtterance ==
    [][IF TranscriptReturned
         THEN \/ JobPublished
              \/ published' = published /\ pc' = "closed"
              \/ /\ published' = published
                 /\ ws_sent' # <<>>
                 /\ ws_sent'[Len(ws_sent')] = EvError("transcribe")
         ELSE published' = published]_vars

\* Two utterances have been published, each with the seq of its final.
C29_Witness ==
    /\ Len(published) = 2
    /\ \A k \in 1..2 : \E i \in 1..Len(ws_sent) :
           ws_sent[i] = EvFinal(published[k].text, published[k].seq)
    /\ transcript = "hi"

\* A transcription is outstanding on a connection whose client is there, and
\* the bounds of the model leave room for another frame.
TranscriptionOutstanding ==
    /\ pc = "transcribing"
    /\ client_open
    /\ Len(ws_sent) + 3 <= MaxSent
    /\ seq < MaxSeq

\* The reply half of C30: a queued reply can be forwarded while the
\* transcription is outstanding.
ReplyForwardingGoesOn ==
    (TranscriptionOutstanding /\ reply_task = "consuming" /\ reply_msgs # <<>>)
        => ENABLED ForwardReply

\* C30: while a transcription is outstanding the connection's frame intake
\* can receive the next inbound frame, and its reply task can forward a
\* queued reply.
C30_TranscriptionSuspendsOnlyDispatch ==
    /\ TranscriptionOutstanding =>
           ENABLED (RecvVoice(FRAME_BYTES) \/ RecvSilence(FRAME_BYTES, 0))
    /\ ReplyForwardingGoesOn

(***************************************************************************)
(* Claims about the dispatch fabric                                        *)
(***************************************************************************)
\* C3: a job is discarded only at its 4th delivery, after its handler ran
\* and failed exactly MAX_RETRIES = 3 times.
C3_DiscardAfterThreeFailures ==
    \A mid \in discarded :
        /\ handler_runs[mid] = MAX_RETRIES
        /\ deliveries[mid] = MAX_RETRIES + 1

\* C5: every reply waiting in rag.replies.<c> was produced for a job that
\* carried connection id c, with that job's seq and text; every answer sent
\* to the client of connection c likewise.
C5_ReplyCorrelation ==
    \A c \in Conns :
        /\ \A i \in 1..Len(reply_q[c]) :
               /\ reply_q[c][i].job_conn = c
               /\ [text |-> reply_q[c][i].body.query, connection_id |-> c,
                   seq |-> reply_q[c][i].body.seq] \in jobs_published
        /\ \A i \in 1..Len(client_rx[c]) :
               /\ client_rx[c][i].job_conn = c
               /\ [text |-> client_rx[c][i].query, connection_id |-> c,
                   seq |-> client_rx[c][i].seq] \in jobs_published

\* Both connections are open with jobs of the same seq in flight, and each
\* client has received an answer.
C5_Witness ==
    /\ \A c \in Conns : Len(client_rx[c]) > 0
    /\ \E c \in Conns : client_rx[c][1].seq = 1
    /\ client_rx["c1"][1].query # client_rx["c2"][1].query
\* C17: when the handler body of rag_worker runs to its end for a job whose
\* connection has closed (QA chain and memory publish succeed), the job is
\* acknowledged: it leaves rag.queries, nothing enters the delay queue, no
\* reply queue and no client receives anything, the memory-gate job is
\* published; and a closed connection's reply queue stays empty.
C17_LateReplyDropped ==
    [][(/\ handler_runs' # handler_runs
        /\ Len(queues'[RAG_QUERIES_QUEUE]) < Len(queues[RAG_QUERIES_QUEUE])
        /\ rag_last'.outcome = "ok"
        /\ ~rag_last'.queue_there)
          => /\ queues'[RAG_QUERIES_QUEUE] = Tail(queues[RAG_QUERIES_QUEUE])
             /\ queues'[RAG_QUERIES_DLX_QUEUE] = queues[RAG_QUERIES_DLX_QUEUE]
             /\ Len(queues'[MEMORY_GATE_QUEUE]) = Len(queues[MEMORY_GATE_QUEUE]) + 1
             /\ UNCHANGED <<reply_q, client_rx, discarded>>
             /\ \A c \in Conns : conn_state[c] # "open" => reply_q'[c] = <<>>]_vars

\* The job of a connection that closed was handled to its end: nothing waits
\* in rag.queries or its delay queue, and no client received an answer.
C17_Witness ==
    /\ rag_last = [outcome |-> "ok", queue_there |-> FALSE]
    /\ jobs_published # {}
    /\ queues[RAG_QUERIES_QUEUE] = <<>>
    /\ queues[RAG_QUERIES_DLX_QUEUE] = <<>>
    /\ discarded = {}
    /\ \A c \in Conns : client_rx[c] = <<>> /\ reply_q[c] = <<>>

\* C27: the retry count read from a message waiting in a primary queue is
\* the number of times its handler has run and failed; 0 before the first
\* delivery.
C27_RetryCountIsFailures ==
    \A q \in DurableQueues \ DelayQueues :
        \A i \in 1..Len(queues[q]) :
            get_retry_count(queues[q][i]) = handler_runs[queues[q][i].mid]

\* C28: the delivery at which a consumer discards a message only takes the
\* message from the head of its primary queue: no handler body runs, no
\* message is published (no reply, no memory-gate job), no reply queue and no
\* client gets anything, and nothing enters a delay queue.
C28_DiscardOnlyAcks ==
    [][discarded' # discarded =>
          /\ \E q \in DurableQueues \ DelayQueues :
                 /\ queues[q] # <<>>
                 /\ Head(queues[q]).mid \in discarded' \ discarded
                 /\ queues' = [queues EXCEPT ![q] = Tail(@)]
          /\ UNCHANGED <<handler_runs, next_mid, reply_q, client_rx, jobs_published>>]_vars

\* An utterance job and a memory-gate job have both been discarded.
C28_Witness ==
    \E a, b \in discarded :
        /\ a # b
        /\ handler_runs[a] > 0
        /\ handler_runs[b] > 0
        /\ \A q \in DurableQueues : queues[q] = <<>>

\* The topic a durable queue belongs to, and the topic a body belongs to.
TopicOfQueue(q) ==
    IF q \in {RAG_QUERIES_QUEUE, RAG_QUERIES_DLX_QUEUE} THEN "rag" ELSE "memory"
TopicOfBody(body) == IF "connection_id" \in DOMAIN body THEN "rag" ELSE "memory"
DeathCount(m, q) ==
    IF \E e \in m.x_death : e.queue = q
      THEN (CHOOSE e \in m.x_death : e.queue = q).count ELSE 0
PrimaryOf(topic) == IF topic = "rag" THEN RAG_QUERIES_QUEUE ELSE MEMORY_GATE_QUEUE
DelayOf(topic) == IF topic = "rag" THEN RAG_QUERIES_DLX_QUEUE ELSE MEMORY_GATE_DLX_QUEUE

\* Every message waits in a queue of its own topic and has been
\* dead-lettered out of queues of its own topic only: rejected out of the
\* primary queue, expired out of the delay queue, by turns.
TransitInTopic ==
    \A q \in DurableQueues :
        \A i \in 1..Len(queues[q]) :
            LET m == queues[q][i]
                t == TopicOfQueue(q)
            IN /\ TopicOfBody(m.body) = t
               /\ t = "rag" => m.body \in jobs_published
               /\ \A e \in m.x_death :
                      /\ e.queue \in {PrimaryOf(t), DelayOf(t)}
                      /\ e.reason = IF e.queue = PrimaryOf(t) THEN "rejected" ELSE "expired"
               /\ DeathCount(m, PrimaryOf(t))
                      = DeathCount(m, DelayOf(t)) + (IF q \in DelayQueues THEN 1 ELSE 0)

\* No step changes the body of a message that stays in the queues.
BodyKept ==
    \A q \in DurableQueues :
        \A i \in 1..Len(queues'[q]) :
            LET m == queues'[q][i] IN
            m.mid < next_mid =>
                \E q0 \in DurableQueues :
                    \E j \in 1..Len(queues[q0]) :
                        queues[q0][j].mid = m.mid /\ queues[q0][j].body = m.body

\* C24: a failed message goes to the delay queue of its own topic and from
\* there back to its own primary queue, never to the other topic's queues,
\* with its body unchanged.
C24_RetryStaysInTopic == []TransitInTopic /\ [][BodyKept]_vars

\* An utterance job and a memory-gate job are each back in their primary
\* queue after a failure and the delay.
C24_Witness ==
    /\ queues[RAG_QUERIES_QUEUE] # <<>>
    /\ queues[MEMORY_GATE_QUEUE] # <<>>
    /\ DeathCount(Head(queues[RAG_QUERIES_QUEUE]), RAG_QUERIES_DLX_QUEUE) = 1
    /\ DeathCount(Head(queues[MEMORY_GATE_QUEUE]), MEMORY_GATE_DLX_QUEUE) = 1

\* Message mid waits in a primary queue or a delay queue.
Circulating(mid) ==
    \E q \in DurableQueues : \E i \in 1..Len(queues[q]) : queues[q][i].mid = mid

\* C22: every message that waits in a primary queue or a delay queue is
\* eventually acknowledged (handled or discarded) and waits nowhere,
\* whatever the outcomes of its handler.
C22_RetriesBounded ==
    \A mid \in 1..(2 * MaxJobs) : Circulating(mid) ~> ~Circulating(mid)

\* An utterance job and a memory-gate job were discarded after failing at
\* every delivery, and nothing waits.
C22_Witness ==
    /\ Cardinality(discarded) = 2
    /\ \E a, b \in discarded : deliveries[a] = deliveries[b] /\ a # b
    /\ \A mid \in discarded : handler_runs[mid] = deliveries[mid] - 1
    /\ \A q \in DurableQueues : queues[q] = <<>>

\* A step in which the rag worker publishes a reply to a reply queue.
ReplyPublished == \E c \in Conns : Len(reply_q'[c]) > Len(reply_q[c])

\* No client has been sent two answers to one job.
NoSecondAnswer ==
    \A c \in Conns : \A i, j \in 1..Len(client_rx[c]) :
        (i < j /\ client_rx[c][i].job_conn = client_rx[c][j].job_conn)
            => client_rx[c][i].seq # client_rx[c][j].seq

\* C33: a handler run that has published the reply does not nack the job
\* (nothing is dead-lettered out of rag.queries in that step), whatever
\* becomes of the memory-gate publish, and no client is sent a second
\* answer with the seq of a job already answered.
C33_MemoryFailureKeepsAnswerPath ==
    /\ [][ReplyPublished =>
             queues'[RAG_QUERIES_DLX_QUEUE] = queues[RAG_QUERIES_DLX_QUEUE]]_vars
    /\ []NoSecondAnswer

\* The places <<queue, position>> of the durable queues qs that hold the
\* message mid.
PlacesOf(qs, mid) ==
    {p \in UNION {{<<q, i>> : i \in 1..Len(qs[q])} : q \in DurableQueues} :
        qs[p[1]][p[2]].mid = mid}

\* The queue a message rejected out of q is dead-lettered to.
RejectedTo(q) == Binding(DeadLetterArgs(q).exchange, DeadLetterArgs(q).routing_key)

\* The step settles the delivery at the head of q once: the message leaves
\* q and is either gone (ack) or once at the end of q's delay queue with the
\* rejection counted (nack without requeue); it is not back in q.
SettledOnce(q) ==
    LET m == Head(queues[q])
        dlq == RejectedTo(q)
    IN
    /\ queues'[q] = Tail(queues[q])
    /\ \/ PlacesOf(queues', m.mid) = {}
       \/ /\ PlacesOf(queues', m.mid) = {<<dlq, Len(queues'[dlq])>>}
          /\ queues'[dlq] = Append(queues[dlq],
                                   [m EXCEPT !.x_death = XDeathAfter(m.x_death, q, "rejected")])

RagHandles == \E outcome \in {"ok", "fail", "fail_memory"}, response \in Responses :
                 RagOnMessage(outcome, response)
MemHandles == \E outcome \in {"ok", "fail"} : MemOnMessage(outcome)

\* C31: a queue consumer survives every delivery and settles it once.  Each
\* run of rag_worker's or memory_worker's on_message takes the delivery at
\* the head of its queue and ends with one ack (the message is gone) or one
\* nack without requeue (the message is once in the delay queue), whether
\* the body is readable or not and whatever the collaborator's outcome; the
\* consumer can always handle the next delivery.  A reply body that is no
\* JSON is passed over, nothing is sent to the client for it, and the reply
\* consumer can go on with the replies behind it.
C31_DeliveriesSettledOnce ==
    /\ [][RagHandles => SettledOnce(RAG_QUERIES_QUEUE)]_vars
    /\ [][MemHandles => SettledOnce(MEMORY_GATE_QUEUE)]_vars
    /\ [](queues[RAG_QUERIES_QUEUE] # <<>> => ENABLED RagHandles)
    /\ [](queues[MEMORY_GATE_QUEUE] # <<>> => ENABLED MemHandles)
    /\ [][(ConsumeReply("c1") /\ ~ReplyBodyReads(Head(reply_q["c1"]).body))
            => /\ client_rx' = client_rx
               /\ reply_q'["c1"] = Tail(reply_q["c1"])]_vars
    /\ []((conn_state["c1"] = "open" /\ reply_q["c1"] # <<>>) => ENABLED ConsumeReply("c1"))

\* An unreadable job was rejected and waits in the delay queue, an unreadable
\* reply was passed over, and the client has received an answer.
C31_Witness ==
    /\ \E i \in 1..Len(queues[RAG_QUERIES_DLX_QUEUE]) :
          /\ ~RagBodyReads(queues[RAG_QUERIES_DLX_QUEUE][i].body)
          /\ queues[RAG_QUERIES_DLX_QUEUE][i].x_death # {}
    /\ reply_errors = 1
    /\ client_rx["c1"] # <<>>

(***************************************************************************)
(* Claims about the gateway proxy                                          *)
(***************************************************************************)
\* C4: once one of the two forwarders of run() has ended, the other ends
\* too and close() runs (self._closed is set and stt_ws closed), with no
\* further message needed from the side that is still connected.
C4_OneEndsBothEnd ==
    ((run_pc = "gather" /\ (c2s_pc = "done" \/ s2c_pc = "done")) ~> p_closed)
\* C19: however often and from whichever call site close() is called, the
\* upstream connection is closed at most once and at most one connection_end
\* record is emitted; once a call has been made and none is in progress
\* there is exactly one record, and it carries the reason of the first call.
C19_CloseIdempotent ==
    /\ stt_closes <= 1
    /\ Len(connection_ends) <= 1
    /\ connection_ends # <<>> => connection_ends[1] = close_calls[1]
    /\ (close_calls # <<>> /\ \A k \in CloseCallers : closers[k] = "")
          => Len(connection_ends) = 1

\* Three calls with three reasons, the first from outside run(), all returned.
C19_Witness ==
    /\ Len(close_calls) = 3
    /\ {close_calls[i] : i \in 1..3} = CloseReasons
    /\ close_calls[1] = "client_disconnect"
    /\ \A k \in CloseCallers : closers[k] = ""
    /\ connection_ends = <<"client_disconnect">>
    /\ stt_closes = 1


\* h is t with some of its members left out, the order kept.
RECURSIVE IsSubsequence(_, _)
IsSubsequence(h, t) ==
    IF h = <<>> THEN TRUE
    ELSE IF t = <<>> THEN FALSE
    ELSE IF Head(h) = Head(t) THEN IsSubsequence(Tail(h), Tail(t))
    ELSE IsSubsequence(h, Tail(t))

\* What _process_stt_message stores of the messages sent to the client, in
\* the order they were sent.
RECURSIVE StoredOf(_)
StoredOf(sent) ==
    IF sent = <<>> THEN <<>>
    ELSE IF StoredRole(Head(sent)) = "" THEN StoredOf(Tail(sent))
    ELSE <<[role |-> StoredRole(Head(sent)), text |-> Head(sent).text]>>
             \o StoredOf(Tail(sent))

RECURSIVE WithoutTimestamps(_)
WithoutTimestamps(history) ==
    IF history = <<>> THEN <<>>
    ELSE <<[role |-> Head(history).role, text |-> Head(history).text]>>
             \o WithoutTimestamps(Tail(history))

BothTransportsOpen == client_ws = "open" /\ stt_ws = "open" /\ ~p_closed

\* The client's message the forwarder takes next is a frame.
FrameAtHead == client_inbox # <<>> /\ Head(client_inbox) # DISCONNECT

\* C39: the proxy keeps the order in both directions while both transports
\* are open.  Each pass of forward_client_to_stt takes the client's oldest
\* unread frame and sends exactly it to the speech endpoint; each pass of
\* forward_stt_to_client takes the endpoint's oldest unread message and sends
\* exactly it to the client: nothing is dropped, sent twice or reordered.  A
\* message is sent to the client before add_to_history is called for it, and
\* the session history holds the stored messages in the order they were sent.
C39_OrderKeptBothWays ==
    /\ [][(C2SRecv /\ BothTransportsOpen /\ FrameAtHead)
            => /\ to_stt' = Append(to_stt, Head(client_inbox))
               /\ client_inbox' = Tail(client_inbox)]_vars
    /\ [][(S2CStep /\ BothTransportsOpen /\ stt_inbox # <<>>)
            => /\ to_client' = Append(to_client, Head(stt_inbox))
               /\ stt_inbox' = Tail(stt_inbox)]_vars
    /\ [](sp[ProxyCaller].op = "add"
            => \E i \in 1..Len(to_client) :
                  /\ i = Len(to_client)
                  /\ StoredRole(to_client[i]) = sp[ProxyCaller].role
                  /\ to_client[i].text = sp[ProxyCaller].text)
    /\ [](gw_session_id \in SessionIds
            => IsSubsequence(WithoutTimestamps(
                                 session_keys[gw_session_id].data.conversation_history),
                             StoredOf(to_client)))

(***************************************************************************)
(* Claims about the gateway streaming endpoint                             *)
(***************************************************************************)
\* The connection presented a token the gateway issued, past its expiry.
ExpiredToken ==
    /\ gw_pc # "new"
    /\ ~TokenMissing(gw_token)
    /\ gw_token.sig = Sign(gw_token.payload, jwt_secret)
    /\ gw_token.payload.exp < auth_clock

\* The connection presented no token, a token not signed by the gateway, or
\* an expired one.
Unauthenticated ==
    /\ gw_pc # "new"
    /\ \/ TokenMissing(gw_token)
       \/ gw_token.sig # Sign(gw_token.payload, jwt_secret)
       \/ gw_token.payload.exp < auth_clock

\* C11: a connection with an expired token is closed by the first step after
\* the accept, with the code and reason of an invalid or expired token; no
\* upstream connection exists and no message, `ready` included, is sent to
\* the client.
C11_ExpiredTokenClosed ==
    ExpiredToken =>
        /\ gw_pc \in {"accepted", "returned"}
        /\ gw_pc = "returned" => client_close = INVALID_TOKEN /\ client_ws = "disconnected"
        /\ stt_ws = "none"
        /\ to_client = <<>>

C11_Witness ==
    /\ ExpiredToken
    /\ gw_pc = "returned"
    /\ client_close = INVALID_TOKEN

\* C12: the close code of a connection closed for an invalid or expired
\* token differs from the close code used for a missing token.
C12_DistinctCloseCodes ==
    (gw_pc = "returned" /\ gw_user = "" /\ ~TokenMissing(gw_token))
        => client_close.code # MISSING_TOKEN_CODE

\* C13: for an unauthenticated connection no user is accepted, the session
\* store is untouched, there is no upstream connection, the forwarders never
\* start, and every frame the client sent is still unread.
C13_NoAudioUnauthenticated ==
    Unauthenticated =>
        /\ gw_user = ""
        /\ gw_session_id = 0
        /\ session_keys = [i \in SessionIds |-> NoKey]
        /\ user_session_keys = [u \in Users |-> NoMapping]
        /\ next_sid = 1
        /\ sp[ProxyCaller] = Idle
        /\ stt_ws = "none"
        /\ run_pc = "connect" /\ c2s_pc = "idle" /\ s2c_pc = "idle"
        /\ to_stt = <<>>
        /\ Len(SelectSeq(client_inbox, LAMBDA f : f # DISCONNECT)) = client_sent

\* A token signed with another key, frames sent, the connection closed.
C13_Witness ==
    /\ Unauthenticated
    /\ ~TokenMissing(gw_token)
    /\ gw_token.payload.exp > auth_clock
    /\ gw_pc = "returned"
    /\ client_sent > 0

\* The messages forwarded to the client that are completed exchanges: a
\* final with text or an answer with text, as the history entry expected.
IsExchange(m) ==
    m.json /\ m.type \in {"final", "answer"} /\ m.text \notin {"", " "}
ExpectedEntry(m) ==
    [role |-> IF m.type = "final" THEN "user" ELSE "assistant", text |-> m.text]
RECURSIVE ExpectedHistory(_)
ExpectedHistory(msgs) ==
    IF msgs = <<>> THEN <<>>
    ELSE IF IsExchange(Head(msgs))
      THEN <<ExpectedEntry(Head(msgs))>> \o ExpectedHistory(Tail(msgs))
      ELSE ExpectedHistory(Tail(msgs))
StoredHistory ==
    LET h == session_keys[gw_session_id].data.conversation_history IN
    [i \in 1..Len(h) |-> [role |-> h[i].role, text |-> h[i].text]]

\* C14: whenever the proxy is not inside an add_to_history call, the history
\* of the connection's session is exactly the finals with text (as user) and
\* the answers with text (as assistant) forwarded so far, in order.
C14_InterceptionStoresExchanges ==
    (gw_session_id # 0 /\ sp[ProxyCaller].pc = "idle")
        => StoredHistory = ExpectedHistory(to_client)

(***************************************************************************)
(* Claims about the session endpoint                                       *)
(***************************************************************************)
\* The token of the last request was issued by create_access_token and, at
\* the time of the request, is before (strict) or not after its expiry.
IssuedToken(token) == token \in tokens
TokenInTime(token, strict) ==
    IF strict THEN auth_clock < token.payload.exp ELSE auth_clock <= token.payload.exp

\* The session key the request names is readable and belongs to user_id.
StoredSession(sid) == session_keys[sid].data
SessionOf(sid, user_id) ==
    /\ Readable(session_keys[sid], sess_clock)
    /\ StoredSession(sid).user_id = user_id

\* C21: a request to get_session is answered with 200 and the session's
\* data only if the token verifies and the session belongs to the token's
\* user; a token that does not verify gets 401, a session that is not there
\* 404, a session of another user 403, and these carry no session data.
C21_SessionOnlyToOwner ==
    [][gs_result' # gs_result =>
          LET r == gs_result'
              token == r.token
              sid == r.session_id
              user_id == token.payload.sub
          IN
          /\ r.status \in {200, 401, 403, 404}
          /\ r.status = 200 =>
                 /\ IssuedToken(token) /\ TokenInTime(token, FALSE)
                 /\ SessionOf(sid, user_id)
                 /\ r.body = [session_id |-> sid, user_id |-> user_id,
                              created_at |-> StoredSession(sid).created_at,
                              last_active |-> StoredSession(sid).last_active,
                              history_length |->
                                  Len(StoredSession(sid).conversation_history)]
          /\ (IssuedToken(token) /\ TokenInTime(token, TRUE)) =>
                 /\ r.status # 401
                 /\ SessionOf(sid, user_id) => r.status = 200
          /\ r.status = 401 => ~(IssuedToken(token) /\ TokenInTime(token, TRUE))
          /\ r.status = 404 => ~Readable(session_keys[sid], sess_clock)
          /\ r.status = 403 =>
                 /\ Readable(session_keys[sid], sess_clock)
                 /\ StoredSession(sid).user_id # user_id
          /\ r.status # 200 => r.body = NoResponse
      ]_vars

\* A user has been given its session, with one message in the history.
C21_Witness ==
    /\ gs_result.status = 200
    /\ gs_result.body.user_id = gs_result.token.payload.sub
    /\ gs_result.body.history_length = 1

(***************************************************************************)
(* Claims about the session store                                          *)
(***************************************************************************)
\* C6: when get_or_create_session returns for a user for whom an earlier
\* call returned session prev, and session:<prev> had not expired when the
\* later call was made (only add_to_history and update_session calls and
\* the passing of time lie between the two), the later call returns prev
\* again and is_new = False.
C6_SameSessionBeforeExpiry ==
    (goc_result.prev # 0 /\ goc_result.prev_live)
        => (goc_result.sid = goc_result.prev /\ ~goc_result.is_new)

\* C7: between calls, user_session:<user> is readable iff the session:<id>
\* it points to is readable, a readable session is the one its user's
\* mapping points to, and the two keys expire at the same moment.
C7_MappingInLockstep ==
    AllIdle =>
        /\ \A u \in Users :
               MappingLive(u) =>
                   /\ SessionLive(user_session_keys[u].sid)
                   /\ session_keys[user_session_keys[u].sid].expires
                          = user_session_keys[u].expires
        /\ \A sid \in SessionIds :
               SessionLive(sid) =>
                   /\ MappingLive(session_keys[sid].data.user_id)
                   /\ user_session_keys[session_keys[sid].data.user_id].sid = sid

\* The messages of session sid whose add_to_history returned True, counted.
AckedCount(sid) == Cardinality({a \in acked : a[1] = sid})

\* C8: with add_to_history called n times in a row on one session, its
\* conversation_history is the last min(n, 100) of the messages 1..n, in the
\* order they were appended, each with the role it was appended with.
C8_HistoryIsLastHundred ==
    LET h == session_keys[1].data.conversation_history
        n == AckedCount(1)
    IN
    /\ Len(h) = Min(n, HISTORY_CAP)
    /\ \A i \in 1..Len(h) :
           /\ h[i].text = n - Len(h) + i
           /\ h[i].role = RoleOf(h[i].text - 1)

\* The 101st message has been appended: the history holds messages 2..101.
C8_Witness ==
    LET h == session_keys[1].data.conversation_history IN
    /\ AckedCount(1) = HISTORY_CAP + 1
    /\ Len(h) = HISTORY_CAP
    /\ h[1].text = 2
    /\ h[HISTORY_CAP].text = HISTORY_CAP + 1

\* C9: every message whose add_to_history returned True is in the
\* conversation_history of its session for as long as the session is
\* readable, whatever the interleaving of the calls of two connections.
C9_NoAppendedMessageLost ==
    \A a \in acked :
        SessionLive(a[1]) =>
            \E i \in 1..Len(session_keys[a[1]].data.conversation_history) :
                session_keys[a[1]].data.conversation_history[i].text = a[2]
\* A key written by SETEX at this step: it lives for the full timeout from now.
FullTtl(key) == key.exists /\ key.expires = sess_clock + session_timeout_seconds

\* C34: get_or_create_session refreshes a live session and creates one
\* otherwise.  A call that reads a live mapping naming a live session goes on
\* to the refresh with the stored record; the refresh writes session:<id>
\* with the full timeout from now, last_active set to now and session_id,
\* user_id, created_at and conversation_history as found, touches no other
\* session, then writes user_session:<user> with the full timeout, still
\* naming that session, and returns it as not new.  A call that reads no
\* mapping, or a mapping naming a session that is gone, goes on to create:
\* a session under a fresh id with empty history, and the mapping re-pointed
\* to it, returned as new.
C34_RefreshOrCreate ==
    /\ [][GocReadMapping("p1") =>
             IF MappingLive(sp["p1"].user)
               THEN /\ sp'["p1"].pc = "g2"
                    /\ sp'["p1"].sid = user_session_keys[sp["p1"].user].sid
               ELSE sp'["p1"].pc = "cs1"]_vars
    /\ [][GocReadSession("p1") =>
             IF SessionLive(sp["p1"].sid)
               THEN /\ sp'["p1"].pc = "r1"
                    /\ sp'["p1"].session = session_keys[sp["p1"].sid].data
               ELSE sp'["p1"].pc = "cs1"]_vars
    /\ [][RefreshSetSession("p1") =>
             LET sid == sp["p1"].sid
                 found == sp["p1"].session
                 written == session_keys'[sid]
             IN /\ FullTtl(written)
                /\ written.data.last_active = sess_clock
                /\ written.data.session_id = found.session_id
                /\ written.data.user_id = found.user_id
                /\ written.data.created_at = found.created_at
                /\ written.data.conversation_history = found.conversation_history
                /\ \A other \in SessionIds \ {sid} :
                      session_keys'[other] = session_keys[other]
                /\ sp'["p1"].pc = "r2"]_vars
    /\ [][RefreshSetMapping("p1") =>
             LET u == sp["p1"].user IN
             /\ FullTtl(user_session_keys'[u])
             /\ user_session_keys'[u].sid = sp["p1"].sid
             /\ session_keys' = session_keys
             /\ goc_result'.sid = sp["p1"].sid
             /\ ~goc_result'.is_new]_vars
    /\ [][CreateSetSession("p1") =>
             LET sid == sp'["p1"].sid
                 written == session_keys'[sid]
             IN /\ ~session_keys[sid].exists
                /\ FullTtl(written)
                /\ written.data.session_id = sid
                /\ written.data.user_id = sp["p1"].user
                /\ written.data.conversation_history = <<>>
                /\ sp'["p1"].pc = "cs2"]_vars
    /\ [][(CreateSetMapping("p1") /\ sp["p1"].op = "goc") =>
             LET u == sp["p1"].user IN
             /\ FullTtl(user_session_keys'[u])
             /\ user_session_keys'[u].sid = sp["p1"].sid
             /\ session_keys'[sp["p1"].sid].data.conversation_history = <<>>
             /\ goc_result'.sid = sp["p1"].sid
             /\ goc_result'.is_new]_vars

\* Session 1 with history was refreshed by the call before; now its record
\* has expired while the mapping of its user still names it, and the call
\* under way has created session 2 with empty history.
C34_Witness ==
    /\ goc_result.sid = 1 /\ ~goc_result.is_new
    /\ session_keys[1].data.conversation_history # <<>>
    /\ sp["p1"].op = "goc" /\ sp["p1"].pc = "cs2"
    /\ MappingLive("u1") /\ user_session_keys["u1"].sid = 1 /\ ~SessionLive(1)
    /\ sp["p1"].sid = 2 /\ SessionLive(2)
    /\ session_keys[2].data.conversation_history = <<>>

(***************************************************************************)
(* Claims about user registration                                          *)
(***************************************************************************)
\* C20: at most one register_user call per username returns a user_id, and
\* username:<name> maps to the user id that call returned.
C20_UsernamesUnique ==
    \A n \in Usernames :
        /\ Cardinality({r \in registered : r.username = n}) <= 1
        /\ \A r \in registered : r.username = n => username_keys[n] = r.user_id

(***************************************************************************)
(* Claims about access tokens                                              *)
(***************************************************************************)
\* C10: decode_token applied to a token create_access_token returned gives
\* the token's payload, with sub the user it was created for, at every time
\* before the token's exp, and None at every time after it.
C10_ValidUntilExpiry ==
    decode_result.token \in tokens =>
        /\ decode_result.now < decode_result.token.payload.exp =>
               /\ decode_result.ok
               /\ decode_result.payload = decode_result.token.payload
               /\ decode_result.payload.exp
                      = decode_result.payload.iat + jwt_expiration_hours * SecondsPerHour
        /\ decode_result.now > decode_result.token.payload.exp => ~decode_result.ok

\* A token that decode_token accepted while it was fresh is refused by the
\* latest call, made after its exp.
C10_Witness ==
    /\ decode_result.token \in tokens
    /\ decode_result.token.payload.jti \in accepted
    /\ decode_result.now > decode_result.token.payload.exp
    /\ ~decode_result.ok
\* The user a token names has a record with is_active false.
Deactivated(token) ==
    /\ token.payload.sub \in Users
    /\ user_keys[token.payload.sub].exists
    /\ ~user_keys[token.payload.sub].data.is_active

\* C37: a deactivated user is refused wherever a live user is required.
\* authenticate_user issues no token for a user whose record says is_active
\* false; get_current_user returns no user for a token naming such a user,
\* whenever the token was issued; so with such a token the streaming
\* endpoint closes the connection, the refresh endpoint issues nothing and
\* the session endpoint answers 401.
C37_DeactivatedRefused ==
    /\ [](\A n \in Usernames, pw \in Passwords :
            (username_keys[n] # "" /\ user_keys[username_keys[n]].exists
               /\ ~user_keys[username_keys[n]].data.is_active)
            => authenticate_user(n, pw) = "")
    /\ [](\A token \in tokens, at_expiry \in BOOLEAN :
            Deactivated(token) => get_current_user(token, auth_clock, at_expiry) = "")
    /\ [][\A at_expiry \in BOOLEAN :
            (GwAuthenticate(at_expiry) /\ gw_token \in tokens /\ Deactivated(gw_token))
            => gw_pc' = "returned"]_vars
    /\ [][\A token \in tokens, at_expiry \in BOOLEAN :
            (RefreshToken(token, at_expiry) /\ Deactivated(token)) => tokens' = tokens]_vars
    /\ [][\A sid \in SessionIds, token \in tokens, at_expiry \in BOOLEAN :
            (GetSession(sid, token, at_expiry) /\ Deactivated(token))
            => gs_result'.status = 401]_vars
====
